---- MODULE Spec2Model ----
(***************************************************************************)
(* Model of the NBA statistics ETL pipeline (data-pipeline/): the unknown   *)
(* player resolver (utils/playerUtils.py), the box-score parsers            *)
(* (parsers/dataParsers.py), the store operations (utils/databaseUtils.py)  *)
(* and the per-date orchestrators (extractors/*.py).                        *)
(*                                                                          *)
(* The provider API and the relational store are the environment: every     *)
(* provider answer and every store error is a nondeterministic input of the *)
(* action that issues the request.                                          *)
(***************************************************************************)
EXTENDS Integers, Sequences, FiniteSets, TLC

\* ---------------------------------------------------------------- bounds
MaxGames == 2      \* games listed for the processed date
MaxRows == 3       \* PlayerStats rows read in one run, over all its box scores
MaxFaults == 1     \* store errors (connection / statement failures) per run
MaxBatch == 2      \* records in one batch handed to a repository operation
MaxDates == 2      \* dates of a date-range run
MaxLen == 4        \* characters of a height or minutes string
MaxTokens == 3     \* words and separators of a position label
MaxPlayers == 2    \* players of a given list; values of max_players

\* ------------------------------------------------------------ value sets
TeamIds == {"T1", "T2"}        \* team ids a payload can name
PlayerIds == {"p1", "p2"}      \* player ids a payload can name
NULL == "NULL"                 \* SQL NULL / Python None in a text column

\* MIN column of a PlayerStats row: a clock string, "0:00", or absent/empty
MinValues == {"12:34", "0:00", "absent"}

\* TEAM_ID column of the CommonPlayerInfo record as the provider sends it
RawTeamIds == {"empty", "int0", "str0", "none", "nan", "T1", "T2"}

\* ------------------------------------------------------ program constants
DefaultHeight == 72
DefaultWeight == 200
DefaultExperience == 0
DefaultPosition == "G"
NoneAge == 0 - 1               \* age = None
NoneInt == 0 - 1               \* None / SQL NULL in an integer column

\* biographical values of a successful provider detail answer (one profile,
\* different from every default)
ApiBio == [age |-> 30, position |-> "F-C", height_inches |-> 81,
           weight_pounds |-> 240, years_experience |-> 7]

\* variant: the fallback position is "C"
DefaultBio_Center == [age |-> NoneAge, position |-> "C",
                      height_inches |-> DefaultHeight,
                      weight_pounds |-> DefaultWeight,
                      years_experience |-> DefaultExperience]

\* the values add_unknown_player falls back to when the detail fetch failed
DefaultBio == [age |-> NoneAge, position |-> DefaultPosition,
               height_inches |-> DefaultHeight,
               weight_pounds |-> DefaultWeight,
               years_experience |-> DefaultExperience]

VARIABLES
    teams,                  \* store: ids of the rows of table teams
    players,                \* store: table players, id -> row
    player_advanced_stats,  \* store: table player_advanced_stats, set of rows
    player_game_stats,      \* store: table player_game_stats, set of rows
    pc,                     \* position of the orchestrator
    existing_players,       \* the run's known-player set
    games,                  \* completed games of the date (advanced run)
    gi,                     \* index of the game being processed
    ri,                     \* PlayerStats rows read so far in this run
    player_stats,           \* records accepted from the current box score
    faults,                 \* store errors so far in this run
    lastRow,                \* history: the row read by the latest step, if
                            \*   any, and what became of it
    rejectedAt,             \* history: length of the batch when a row of the
                            \*   current box score was last rejected
    lastResolve,            \* history: inputs and result of the latest
                            \*   add_unknown_player call (resolver specification)
    accepted,               \* history: ids add_unknown_player accepted this run
    tradUnit,               \* history: scoreboard + provider data of a traditional run
    game_rows,              \* store: table games, id -> row
    team_advanced_stats,    \* store: table team_advanced_stats, set of rows
    team_game_stats,        \* store: table team_game_stats, set of rows
    upsert,                 \* repository operations: the batch being applied,
                            \*   how often, and the store after the first time
    unit,                   \* history: the box score of the latest game of an
                            \*   advanced run and what was decoded from it
    range,                  \* date-range run: current date, end date, outcome
    script,                 \* extract_nba_data.py run: scoreboard, position,
                            \*   accumulated batches
    norm,                   \* field normalizers: function, input, outputs
    career                  \* career run: player list, position, counters,
                            \*   the career tables of the store

vars == <<teams, players, player_advanced_stats, player_game_stats, pc, existing_players, games,
          gi, ri, player_stats, faults, lastRow, rejectedAt, lastResolve,
          accepted, tradUnit, game_rows, team_advanced_stats, team_game_stats,
          upsert, unit, range, script, norm, career>>

\* the variables the per-date orchestrators of extractors/ leave alone
extVars == <<game_rows, team_advanced_stats, team_game_stats, upsert, unit,
             range, script, norm, career>>

\* ------------------------------------------------------------------ store

\* str(player_record.get('TEAM_ID', ''))
StrTeamId(raw) ==
    CASE raw = "empty" -> ""
      [] raw = "int0" -> "0"
      [] raw = "str0" -> "0"
      [] raw = "none" -> "None"
      [] OTHER -> raw

\* variant: the lookup never finds the team
team_exists_NeverFinds(team_id, err) == FALSE

\* DatabaseManager.team_exists: any exception is logged and answered False
team_exists(team_id, err) ==
    IF err THEN FALSE ELSE team_id \in teams

\* DatabaseManager.get_existing_players
get_existing_players == DOMAIN players

\* variant: the Player row of the resolver never reaches table players
UpsertPlayer_NotCommitted(tbl, player_id, rec) == tbl

\* INSERT INTO players ... ON CONFLICT (id) DO UPDATE SET <every column>
UpsertPlayer(tbl, player_id, rec) ==
    [p \in DOMAIN tbl \cup {player_id} |-> IF p = player_id THEN rec ELSE tbl[p]]

\* A batch naming the same (player_id, game_id) twice: the single INSERT ...
\* ON CONFLICT DO UPDATE statement cannot touch a row twice and fails whole
HasDuplicateKey(batch) ==
    \E i, j \in 1..Len(batch) :
        /\ i < j
        /\ batch[i].player_id = batch[j].player_id
        /\ batch[i].game_id = batch[j].game_id

\* INSERT INTO player_advanced_stats ... ON CONFLICT (player_id, game_id)
\* DO UPDATE SET <every column but team_id>
insert_player_advanced_stats(tbl, batch) ==
    LET keys == {<<batch[i].player_id, batch[i].game_id>> : i \in 1..Len(batch)}
        incoming(k) == CHOOSE i \in 1..Len(batch) :
                           <<batch[i].player_id, batch[i].game_id>> = k
        kept == {s \in tbl : <<s.player_id, s.game_id>> \notin keys}
        merged == {[s EXCEPT !.game_type = batch[incoming(<<s.player_id, s.game_id>>)].game_type] :
                      s \in {t \in tbl : <<t.player_id, t.game_id>> \in keys}}
        fresh == {batch[incoming(k)] :
                      k \in {q \in keys : \A t \in tbl : <<t.player_id, t.game_id>> # q}}
    IN kept \cup merged \cup fresh

\* ------------------------------------------------------------- resolver

\* variant: the test for "no current team" misses the string "0"
NoCurrentTeam_MissesZero(api_team_id) ==
    api_team_id = "" \/ api_team_id = "None"

\* not api_team_id or api_team_id == '0' or api_team_id == '' or
\* api_team_id == 'None'
NoCurrentTeam(api_team_id) ==
    api_team_id = "" \/ api_team_id = "0" \/ api_team_id = "None"

\* fetch_player_details: None on a provider error or an empty payload,
\* otherwise the parsed record with team_id = str(TEAM_ID)
fetch_player_details(answer) ==
    IF answer \in {"error", "empty_payload"}
    THEN [found |-> FALSE, team_id |-> "", bio |-> DefaultBio]
    ELSE [found |-> TRUE, team_id |-> StrTeamId(answer), bio |-> ApiBio]

\* answers of the provider to a player detail request
DetailAnswers == {"error", "empty_payload"} \cup RawTeamIds

\* variant: the team of the statistics row is always taken
ChooseTeam_GameTeamOnly(details, game_team_id, errApi) == game_team_id

\* variant: a provider team is taken without looking it up in table teams
ChooseTeam_TrustsProvider(details, game_team_id, errApi) ==
    IF details.found /\ ~NoCurrentTeam(details.team_id)
    THEN details.team_id
    ELSE game_team_id

\* the team id add_unknown_player settles on before its final validation;
\* errApi is the outcome of the team_exists(api_team_id) lookup
ChooseTeam(details, game_team_id, errApi) ==
    IF details.found
    THEN IF NoCurrentTeam(details.team_id)
         THEN game_team_id
         ELSE IF team_exists(details.team_id, errApi)
              THEN details.team_id
              ELSE game_team_id
    ELSE game_team_id

\* does add_unknown_player look the provider's team up in table teams
ConsultsApiTeam(details) ==
    details.found /\ ~NoCurrentTeam(details.team_id)

\* variant: no final validation of the chosen team
add_unknown_player_NoFinalValidation(row, answer, errApi, errFinal, errWrite) ==
    LET details == fetch_player_details(answer)
        team_id == IF details.found /\ ~NoCurrentTeam(details.team_id)
                   THEN details.team_id ELSE row.team_id
        bio == IF details.found THEN details.bio ELSE DefaultBio
    IN [ok |-> ~errWrite,
        rec |-> [team_id |-> team_id, age |-> bio.age, position |-> bio.position,
                 height_inches |-> bio.height_inches,
                 weight_pounds |-> bio.weight_pounds,
                 years_experience |-> bio.years_experience],
        consulted |-> {}]

\* add_unknown_player: the outcome for one statistics row, given the provider
\* answer and the outcome (error or not) of each store call it makes
add_unknown_player(row, answer, errApi, errFinal, errWrite) ==
    LET details == fetch_player_details(answer)
        game_team_id == row.team_id
        team_id == ChooseTeam(details, game_team_id, errApi)
        bio == IF details.found THEN details.bio ELSE DefaultBio
        rec == [team_id |-> team_id, age |-> bio.age, position |-> bio.position,
                height_inches |-> bio.height_inches,
                weight_pounds |-> bio.weight_pounds,
                years_experience |-> bio.years_experience]
        valid == team_exists(team_id, errFinal)
    IN [ok |-> valid /\ ~errWrite,
        rec |-> rec,
        consulted |-> (IF ConsultsApiTeam(details) THEN {details.team_id} ELSE {})
                        \cup {team_id}]

\* ------------------------------------------------------------- parsers

\* variant: the dataclass has a game_type field
GameDataFields_WithGameType ==
    {"game_id", "game_date", "season", "home_team_id", "away_team_id",
     "home_score", "away_score", "status", "game_type"}

\* fields of the dataclass models.dataModels.GameData
GameDataFields == {"game_id", "game_date", "season", "home_team_id",
                   "away_team_id", "home_score", "away_score", "status"}

\* keyword arguments GameDataParser.parse_game_data passes to GameData(...)
ParseGameDataKwargs == {"game_id", "game_date", "season", "home_team_id",
                        "away_team_id", "status", "game_type"}

\* status of a scoreboard game: 2 in progress, 3 completed, else scheduled
GameStatus(status_id) ==
    IF status_id = 2 THEN "in_progress"
    ELSE IF status_id = 3 THEN "completed" ELSE "scheduled"

\* GameDataParser.parse_game_data: the dataclass constructor raises TypeError
\* on a keyword that is not one of its fields
parse_game_data(game_dict) ==
    IF ParseGameDataKwargs \subseteq GameDataFields
    THEN [raised |-> FALSE, game_id |-> game_dict.game_id,
          status |-> GameStatus(game_dict.status_id)]
    ELSE [raised |-> TRUE, game_id |-> game_dict.game_id, status |-> "TypeError"]

\* variant: only an absent or empty MIN skips the row
NoMinutes_OnlyAbsent(min) == min = "absent"

\* not stats_dict.get('MIN') or stats_dict['MIN'] == '0:00'
NoMinutes(min) == min = "absent" \/ min = "0:00"

\* 'Home' if team_id == game_info['home_team_id'] else 'Away'
HomeAway(team_id, game) == IF team_id = game.home_team_id THEN "Home" ELSE "Away"

\* the PlayerAdvancedStats record built from one row
StatRecord(row, game) ==
    [player_id |-> row.player_id, game_id |-> game.id, team_id |-> row.team_id,
     game_type |-> HomeAway(row.team_id, game)]

\* variant: every row is resolved, known player or not
NeedsResolution_Always(player_id, known) == TRUE

\* if player_id not in existing_players
NeedsResolution(player_id, known) == player_id \notin known

\* variant: the accepted id is not remembered
RememberPlayer_Forgets(known, player_id) == known

\* existing_players.add(player_id) after add_unknown_player returned True
RememberPlayer(known, player_id) == known \cup {player_id}

\* variant: a rejected id is remembered like an accepted one
ParseRow_RemembersRejected(batch, known, row, game, resolved) ==
    IF NeedsResolution(row.player_id, known)
    THEN IF resolved
         THEN [batch |-> Append(batch, StatRecord(row, game)),
               known |-> RememberPlayer(known, row.player_id)]
         ELSE [batch |-> batch, known |-> RememberPlayer(known, row.player_id)]
    ELSE [batch |-> Append(batch, StatRecord(row, game)), known |-> known]

\* variant: a rejected row ends the loop's batch (the records so far are lost)
ParseRow_RejectionDropsBatch(batch, known, row, game, resolved) ==
    IF NeedsResolution(row.player_id, known)
    THEN IF resolved
         THEN [batch |-> Append(batch, StatRecord(row, game)),
               known |-> RememberPlayer(known, row.player_id)]
         ELSE [batch |-> << >>, known |-> known]
    ELSE [batch |-> Append(batch, StatRecord(row, game)), known |-> known]

\* one iteration of the loop over the rowSet, after the minutes check:
\* resolved is the answer of add_unknown_player when it was called.  The row
\* of a known or accepted player appends its record; a rejected row is
\* skipped (continue) and leaves batch and known-player set as they are
ParseRow(batch, known, row, game, resolved) ==
    IF NeedsResolution(row.player_id, known)
    THEN IF resolved
         THEN [batch |-> Append(batch, StatRecord(row, game)),
               known |-> RememberPlayer(known, row.player_id)]
         ELSE [batch |-> batch, known |-> known]
    ELSE [batch |-> Append(batch, StatRecord(row, game)), known |-> known]

\* rows a PlayerStats table can hold
Rows == [player_id : PlayerIds, team_id : TeamIds, min : MinValues]

\* lastRow when the latest step read no row
NoRow == [player_id |-> NULL, team_id |-> NULL, min |-> NULL,
          outcome |-> "none"]

\* rejectedAt while no row of the current box score was rejected
NotRejected == 0 - 1

\* lastResolve before any add_unknown_player call
NoResolve == [player_id |-> NULL, game_team_id |-> NULL, answer |-> NULL,
              errApi |-> FALSE, errFinal |-> FALSE, errWrite |-> FALSE,
              ok |-> FALSE, consulted |-> {},
              rec |-> [team_id |-> NULL, age |-> NoneAge, position |-> DefaultPosition,
                       height_inches |-> DefaultHeight,
                       weight_pounds |-> DefaultWeight,
                       years_experience |-> DefaultExperience]]

\* tradUnit before a traditional run
NoUnit == [ran |-> FALSE, game_id |-> 0, status_id |-> 0,
           row |-> [player_id |-> NULL, team_id |-> NULL, min |-> "absent"],
           answer |-> NULL]

\* sequences of at most n elements of S
SeqUpTo(S, n) == UNION {[1..k -> S] : k \in 0..n}

\* natural key of a team statistics row
TeamStatKey(s) == <<s.team_id, s.game_id>>

\* a box score without tables
NoPayload == [has_team |-> FALSE, team_rows |-> << >>,
              has_player |-> FALSE, player_rows |-> << >>]

\* unit before any game of an advanced run was processed
NoAdvUnit == [game_id |-> 0, has_team |-> FALSE, team_rows |-> << >>,
              has_player |-> FALSE, team_stats |-> << >>,
              player_stats |-> << >>, errConn |-> FALSE, errTeam |-> FALSE,
              errPlayer |-> FALSE, raised |-> FALSE]

\* range while no date-range run is under way
NoRange == [pc |-> "none", kind |-> "none", end_date |-> 0, current_date |-> 1,
            visited |-> << >>, enumFailed |-> FALSE, last |-> "none"]

\* script while no single-date traditional run is under way
NoScript == [pc |-> "none", module |-> "none", games_raw |-> << >>, i |-> 0,
             acc |-> [games |-> << >>, all_team_stats |-> << >>,
                      all_player_stats |-> << >>],
             fetched |-> << >>]

\* a Python value handed to a normalizer: None, an int (n), a float (given
\* by the text str() renders it as) or a str (chars, one character each)
PyNone == [type |-> "none", n |-> 0, chars |-> << >>]
PyInt(n) == [type |-> "int", n |-> n, chars |-> << >>]
PyFloat(repr) == [type |-> "float", n |-> 0, chars |-> repr]
PyStr(chars) == [type |-> "str", n |-> 0, chars |-> chars]

\* what a normalizer call produced: it raised, or it returned value (an
\* int; seconds stand for the float of parse_minutes_to_decimal) or text
NoOut == [raised |-> FALSE, value |-> 0, text |-> << >>,
          game_type |-> "none", status |-> "none"]

\* norm while no normalizer is being applied
NoNorm == [fn |-> "none", input |-> PyNone, today |-> <<0, 0, 0>>,
           status_id |-> 0,
           calls |-> 0, out |-> NoOut, again |-> NoOut]

\* upsert while no repository operation is being applied
NoUpsert == [phase |-> 0, op |-> "none", batch |-> << >>, once |-> {}]

\* the career tables of the store, empty
NoCareerStore == [season_totals_regular |-> {}, career_totals_regular |-> {},
                  season_totals_playoffs |-> {}, career_totals_playoffs |-> {},
                  season_rankings_regular |-> {},
                  season_rankings_playoffs |-> {}]

\* the latest player of the run: none yet
NoCareerPlayer == [player_id |-> NULL, rows |-> << >>, handed |-> << >>,
                   ok |-> FALSE]

\* career while no career run is under way
NoCareer == [pc |-> "none", entry |-> "none", max_players |-> NoneInt,
             player_ids |-> << >>, i |-> 1, successful |-> 0, failed |-> 0,
             processed |-> << >>, store |-> NoCareerStore,
             last |-> NoCareerPlayer]

\* the variables of the specifications of the game extractors, at rest
ExtInitButCareer ==
    /\ game_rows = {}
    /\ team_advanced_stats = {}
    /\ team_game_stats = {}
    /\ upsert = NoUpsert
    /\ unit = NoAdvUnit
    /\ range = NoRange
    /\ script = NoScript
    /\ norm = NoNorm

\* the variables of the other specifications, at rest
ExtInit ==
    /\ ExtInitButCareer
    /\ career = NoCareer

\* ---------------------------------------------------------------- Init

\* contents of table teams: empty, one team, every team
LocalTeamTables == {{}, {"T1"}, TeamIds}

\* table players before the run: any subset of the players, each of them on
\* a local team (on none when table teams is empty)
InitialPlayerTables ==
    LET team == IF teams = {} THEN NULL ELSE CHOOSE t \in teams : TRUE
    IN {[p \in known |-> [team_id |-> team, age |-> ApiBio.age,
                          position |-> ApiBio.position,
                          height_inches |-> ApiBio.height_inches,
                          weight_pounds |-> ApiBio.weight_pounds,
                          years_experience |-> ApiBio.years_experience]] :
            known \in SUBSET PlayerIds}

\* completed games of the date held by table games, ORDER BY id
CompletedGames(n) ==
    [i \in 1..n |-> [id |-> i, home_team_id |-> "T1", away_team_id |-> "T2"]]

Init ==
    /\ teams \in LocalTeamTables
    /\ players \in InitialPlayerTables
    /\ player_advanced_stats = {}
    /\ player_game_stats = {}
    /\ pc = "idle"
    /\ existing_players = {}
    /\ games \in {CompletedGames(n) : n \in 0..MaxGames}
    /\ gi = 0
    /\ ri = 0
    /\ player_stats = << >>
    /\ faults = 0
    /\ lastRow = NoRow
    /\ rejectedAt = NotRejected
    /\ lastResolve = NoResolve
    /\ accepted = {}
    /\ tradUnit = NoUnit
    /\ ExtInit

storeVars == <<teams, players, player_advanced_stats, player_game_stats>>
histVars == <<lastRow, rejectedAt, lastResolve, accepted, tradUnit>>

\* -------------------------------------------- advanced orchestrator

\* after one game (processed or failed): the next game of the list, or the end
NextGame ==
    IF gi < Len(games)
    THEN /\ gi' = gi + 1
         /\ pc' = "fetch"
    ELSE /\ gi' = gi
         /\ pc' = "done"

\* extract_advanced_stats_for_date, up to the loop over the games
AdvStart ==
    /\ pc = "idle"
    /\ existing_players' = get_existing_players
    /\ IF games = << >>
       THEN pc' = "done" /\ gi' = gi
       ELSE pc' = "fetch" /\ gi' = 1
    /\ UNCHANGED <<extVars, storeVars, games, ri, player_stats, faults, histVars>>

\* get_existing_players / get_completed_games_for_date raise: the run aborts
AdvStartFails ==
    /\ pc = "idle"
    /\ faults < MaxFaults
    /\ faults' = faults + 1
    /\ pc' = "failed"
    /\ UNCHANGED <<extVars, storeVars, existing_players, games, gi, ri, player_stats, histVars>>

\* fetch_advanced_boxscore answers with a payload
AdvFetchBoxscore ==
    /\ pc = "fetch"
    /\ pc' = "rows"
    /\ player_stats' = << >>
    /\ lastRow' = NoRow
    /\ rejectedAt' = NotRejected
    /\ UNCHANGED <<extVars, storeVars, existing_players, games, gi, ri, faults,
                   lastResolve, accepted, tradUnit>>

\* fetch_advanced_boxscore raises: logged, continue with the next game
AdvFetchFails ==
    /\ pc = "fetch"
    /\ NextGame
    /\ UNCHANGED <<extVars, storeVars, existing_players, games, ri, player_stats, faults, histVars>>

\* a row without minutes played: skipped before anything else
RowNoMinutes ==
    /\ pc = "rows"
    /\ ri < MaxRows
    /\ \E row \in Rows :
        /\ NoMinutes(row.min)
        /\ lastRow' = [player_id |-> row.player_id, team_id |-> NULL,
                       min |-> row.min, outcome |-> "no_minutes"]
    /\ ri' = ri + 1
    /\ UNCHANGED <<extVars, storeVars, pc, existing_players, games, gi, player_stats, faults,
                   rejectedAt, lastResolve, accepted, tradUnit>>

\* a row of a player of the known-player set: the record is built
RowKnownPlayer ==
    /\ pc = "rows"
    /\ ri < MaxRows
    /\ \E row \in Rows :
        LET out == ParseRow(player_stats, existing_players, row, games[gi], FALSE)
        IN /\ ~NoMinutes(row.min)
           /\ ~NeedsResolution(row.player_id, existing_players)
           /\ player_stats' = out.batch
           /\ existing_players' = out.known
           /\ lastRow' = [player_id |-> row.player_id, team_id |-> row.team_id,
                          min |-> row.min, outcome |-> "known"]
    /\ ri' = ri + 1
    /\ UNCHANGED <<extVars, storeVars, pc, games, gi, faults, rejectedAt, lastResolve,
                   accepted, tradUnit>>

\* a row of a player outside the known-player set: add_unknown_player decides
RowUnknownPlayer ==
    /\ pc = "rows"
    /\ ri < MaxRows
    /\ \E row \in Rows, answer \in DetailAnswers, errApi, errFinal, errWrite \in BOOLEAN :
        LET res == add_unknown_player(row, answer, errApi, errFinal, errWrite)
            details == fetch_player_details(answer)
            n == (IF errApi THEN 1 ELSE 0) + (IF errFinal THEN 1 ELSE 0)
                   + (IF errWrite THEN 1 ELSE 0)
            pid == row.player_id
            out == ParseRow(player_stats, existing_players, row, games[gi], res.ok)
        IN /\ ~NoMinutes(row.min)
           /\ NeedsResolution(pid, existing_players)
           /\ errApi => ConsultsApiTeam(details)
           /\ errWrite => team_exists(res.rec.team_id, errFinal)
           /\ faults + n <= MaxFaults
           /\ faults' = faults + n
           /\ players' = IF res.ok THEN UpsertPlayer(players, pid, res.rec) ELSE players
           /\ player_stats' = out.batch
           /\ existing_players' = out.known
           /\ lastRow' = [player_id |-> pid, team_id |-> row.team_id,
                          min |-> row.min,
                          outcome |-> IF res.ok THEN "accepted" ELSE "rejected"]
           /\ rejectedAt' = IF res.ok THEN rejectedAt ELSE Len(player_stats)
           /\ accepted' = IF res.ok THEN accepted \cup {pid} ELSE accepted
    /\ ri' = ri + 1
    /\ UNCHANGED <<extVars, teams, player_advanced_stats, player_game_stats, pc, games, gi,
                   lastResolve, tradUnit>>

\* a row of a player outside the known-player set, and get_connection(),
\* evaluated as an argument of the add_unknown_player call, raises: the
\* exception leaves the parser, the orchestrator logs it and continues with
\* the next game; the records of this box score are lost
RowResolveConnectFails ==
    /\ pc = "rows"
    /\ ri < MaxRows
    /\ faults < MaxFaults
    /\ \E pid \in PlayerIds : NeedsResolution(pid, existing_players)
    /\ faults' = faults + 1
    /\ NextGame
    /\ lastRow' = NoRow
    /\ UNCHANGED <<extVars, storeVars, existing_players, games, ri, player_stats, rejectedAt,
                   lastResolve, accepted, tradUnit>>

\* end of the rowSet: a non-empty batch is upserted, then the next game
AdvInsert ==
    /\ pc = "rows"
    /\ ~HasDuplicateKey(player_stats)
    /\ player_advanced_stats' =
           IF player_stats = << >> THEN player_advanced_stats
           ELSE insert_player_advanced_stats(player_advanced_stats, player_stats)
    /\ NextGame
    /\ lastRow' = NoRow
    /\ UNCHANGED <<extVars, teams, players, player_game_stats, existing_players, games, ri,
                   player_stats, faults, rejectedAt, lastResolve, accepted, tradUnit>>

\* insert_player_advanced_stats raises (store error, or a key twice in the
\* batch): nothing of the batch is written, logged, continue with the next game
AdvInsertFails ==
    /\ pc = "rows"
    /\ player_stats # << >>
    /\ \/ HasDuplicateKey(player_stats) /\ faults' = faults
       \/ ~HasDuplicateKey(player_stats) /\ faults < MaxFaults /\ faults' = faults + 1
    /\ NextGame
    /\ lastRow' = NoRow
    /\ UNCHANGED <<extVars, storeVars, existing_players, games, ri, player_stats, rejectedAt,
                   lastResolve, accepted, tradUnit>>

\* ------------------------------------------ traditional orchestrator

\* game dicts a scoreboard can list
GameDicts == [game_id : 1..MaxGames, status_id : {1, 2, 3}]

\* extract_games_for_date on a date for which the scoreboard lists games:
\* the known-player set is read, the first game dict is parsed, and the
\* exception of parse_game_data leaves through the outer handler (raise)
TradExtract ==
    /\ pc = "idle"
    /\ existing_players' = get_existing_players
    /\ \E g \in GameDicts, row \in Rows, answer \in RawTeamIds :
        /\ tradUnit' = [ran |-> TRUE, game_id |-> g.game_id,
                        status_id |-> g.status_id, row |-> row,
                        answer |-> answer]
        /\ pc' = IF parse_game_data(g).raised THEN "failed" ELSE "trad_boxscore"
    /\ UNCHANGED <<extVars, storeVars, games, gi, ri, player_stats, faults, lastRow,
                   rejectedAt, lastResolve, accepted>>

\* extract_games_for_date on a date without games: returns
TradNoGames ==
    /\ pc = "idle"
    /\ existing_players' = get_existing_players
    /\ pc' = "done"
    /\ UNCHANGED <<extVars, storeVars, games, gi, ri, player_stats, faults, histVars>>

\* get_existing_players or fetch_games_for_date raises: logged and re-raised
TradEnumerationFails ==
    /\ pc = "idle"
    /\ pc' = "failed"
    /\ UNCHANGED <<extVars, storeVars, existing_players, games, gi, ri, player_stats,
                   faults, histVars>>

Next ==
    \/ AdvStart
    \/ AdvStartFails
    \/ AdvFetchBoxscore
    \/ AdvFetchFails
    \/ RowNoMinutes
    \/ RowKnownPlayer
    \/ RowUnknownPlayer
    \/ RowResolveConnectFails
    \/ AdvInsert
    \/ AdvInsertFails
    \/ TradExtract
    \/ TradNoGames
    \/ TradEnumerationFails

Spec == Init /\ [][Next]_vars

\* ------------------------------------------------ resolver on its own

\* the parser is inside the loop over the rowSet of a box score, with the
\* known-player set read from table players
InitResolver ==
    /\ teams \in LocalTeamTables
    /\ players \in InitialPlayerTables
    /\ player_advanced_stats = {}
    /\ player_game_stats = {}
    /\ pc = "rows"
    /\ existing_players = get_existing_players
    /\ games = CompletedGames(1)
    /\ gi = 1
    /\ ri = 0
    /\ player_stats = << >>
    /\ faults = 0
    /\ lastRow = NoRow
    /\ rejectedAt = NotRejected
    /\ lastResolve = NoResolve
    /\ accepted = {}
    /\ tradUnit = NoUnit
    /\ ExtInit

\* one add_unknown_player call for the row of a player outside the
\* known-player set, with its inputs and its result kept in lastResolve
Resolve ==
    /\ pc = "rows"
    /\ ri < MaxRows
    /\ \E row \in Rows, answer \in DetailAnswers, errApi, errFinal, errWrite \in BOOLEAN :
        LET res == add_unknown_player(row, answer, errApi, errFinal, errWrite)
            details == fetch_player_details(answer)
            n == (IF errApi THEN 1 ELSE 0) + (IF errFinal THEN 1 ELSE 0)
                   + (IF errWrite THEN 1 ELSE 0)
            pid == row.player_id
        IN /\ ~NoMinutes(row.min)
           /\ NeedsResolution(pid, existing_players)
           /\ errApi => ConsultsApiTeam(details)
           /\ errWrite => team_exists(res.rec.team_id, errFinal)
           /\ faults + n <= MaxFaults
           /\ faults' = faults + n
           /\ players' = IF res.ok THEN UpsertPlayer(players, pid, res.rec) ELSE players
           /\ existing_players' = IF res.ok THEN RememberPlayer(existing_players, pid)
                                  ELSE existing_players
           /\ lastResolve' = [player_id |-> pid, game_team_id |-> row.team_id,
                              answer |-> answer, errApi |-> errApi,
                              errFinal |-> errFinal, errWrite |-> errWrite,
                              ok |-> res.ok, consulted |-> res.consulted,
                              rec |-> res.rec]
    /\ ri' = ri + 1
    /\ UNCHANGED <<extVars, teams, player_advanced_stats, player_game_stats, pc, games, gi,
                   player_stats, lastRow, rejectedAt, accepted, tradUnit>>

SpecResolver == InitResolver /\ [][Resolve]_vars

\* ------------------------------------------- one game, table by table

\* box scores: each of the tables TeamStats and PlayerStats is missing, or
\* present with its rowSet (TeamStats: no row or one row per team;
\* PlayerStats: at most one row)
Payloads ==
    {p \in [has_team : BOOLEAN, team_rows : {<< >>, <<"T1", "T2">>},
            has_player : BOOLEAN, player_rows : SeqUpTo(Rows, 1)] :
        /\ ~p.has_team => p.team_rows = << >>
        /\ ~p.has_player => p.player_rows = << >>}

\* variant: a payload without the table makes the parser raise
MissingTableRaises_KeyError == TRUE

\* if not team_stats_data / if not player_stats_data: a warning is logged
\* and the empty list is returned
MissingTableRaises == FALSE

\* AdvancedStatsParser.parse_team_advanced_stats (TraditionalStatsParser.
\* parse_team_stats finds the table the same way)
parse_team_advanced_stats(payload, game) ==
    IF ~payload.has_team
    THEN [raised |-> MissingTableRaises, team_stats |-> << >>]
    ELSE [raised |-> FALSE,
          team_stats |-> [i \in 1..Len(payload.team_rows) |->
                             [team_id |-> payload.team_rows[i], game_id |-> game.id,
                              game_type |-> HomeAway(payload.team_rows[i], game)]]]

\* AdvancedStatsParser.parse_player_advanced_stats on a rowSet of at most
\* one row; resolved is the answer of add_unknown_player when it is called
parse_player_advanced_stats(payload, game, known, resolved) ==
    IF ~payload.has_player
    THEN [raised |-> MissingTableRaises, player_stats |-> << >>, known |-> known]
    ELSE IF payload.player_rows = << >> \/ NoMinutes(payload.player_rows[1].min)
         THEN [raised |-> FALSE, player_stats |-> << >>, known |-> known]
         ELSE [raised |-> FALSE,
               player_stats |-> ParseRow(<< >>, known, payload.player_rows[1],
                                         game, resolved).batch,
               known |-> ParseRow(<< >>, known, payload.player_rows[1],
                                  game, resolved).known]

\* does the parser call add_unknown_player on this payload
CallsResolver(payload, known) ==
    /\ payload.has_player
    /\ payload.player_rows # << >>
    /\ ~NoMinutes(payload.player_rows[1].min)
    /\ NeedsResolution(payload.player_rows[1].player_id, known)

\* DatabaseManager.insert_team_advanced_stats: INSERT ... ON CONFLICT
\* (team_id, game_id) DO UPDATE SET <every other column>
insert_team_advanced_stats(tbl, batch) ==
    {s \in tbl : \A i \in 1..Len(batch) : TeamStatKey(s) # TeamStatKey(batch[i])}
        \cup {batch[i] : i \in 1..Len(batch)}

\* the body of the loop over the games of a date (the same in
\* extract_advanced_stats_for_date and in ..._for_date_range) for one game
\* whose box score was fetched: both tables are decoded (the resolver may
\* write table players), then the team rows and the player rows are
\* upserted; an exception anywhere is logged and the next game follows
AdvGameBody(game, known) ==
       \E payload \in Payloads :
       \E answer \in IF CallsResolver(payload, known)
                     THEN DetailAnswers ELSE {"error"} :
       \E errConn \in IF /\ CallsResolver(payload, known)
                         /\ faults < MaxFaults
                         /\ ~parse_team_advanced_stats(payload, game).raised
                      THEN BOOLEAN ELSE {FALSE} :
       \E errApi \in IF /\ CallsResolver(payload, known)
                        /\ faults < MaxFaults
                        /\ ~errConn
                        /\ ConsultsApiTeam(fetch_player_details(answer))
                     THEN BOOLEAN ELSE {FALSE} :
       \E errFinal, errWrite \in
              IF CallsResolver(payload, known) /\ faults < MaxFaults /\ ~errConn
              THEN BOOLEAN ELSE {FALSE} :
       \E errTeam \in IF /\ faults < MaxFaults
                         /\ ~errConn
                         /\ parse_team_advanced_stats(payload, game).team_stats
                                # << >>
                      THEN BOOLEAN ELSE {FALSE} :
       \E errPlayer \in IF faults < MaxFaults /\ ~errConn /\ ~errTeam
                        THEN BOOLEAN ELSE {FALSE} :
        LET calls == CallsResolver(payload, known)
            row == payload.player_rows[1]
            res == add_unknown_player(row, answer, errApi, errFinal, errWrite)
            resolved == calls /\ res.ok
            t == parse_team_advanced_stats(payload, game)
            p == parse_player_advanced_stats(payload, game, known, resolved)
            decoded == ~t.raised /\ ~p.raised /\ ~errConn
            teamDone == decoded /\ t.team_stats # << >> /\ ~errTeam
            playerDone == /\ decoded
                          /\ ~(t.team_stats # << >> /\ errTeam)
                          /\ p.player_stats # << >>
                          /\ ~errPlayer
            n == (IF errApi THEN 1 ELSE 0) + (IF errFinal THEN 1 ELSE 0)
                   + (IF errWrite THEN 1 ELSE 0) + (IF errConn THEN 1 ELSE 0)
                   + (IF errTeam THEN 1 ELSE 0) + (IF errPlayer THEN 1 ELSE 0)
        IN /\ errConn => (~t.raised /\ ~errApi /\ ~errFinal /\ ~errWrite)
           /\ errApi => ConsultsApiTeam(fetch_player_details(answer))
           /\ errWrite => team_exists(res.rec.team_id, errFinal)
           /\ errTeam => (decoded /\ t.team_stats # << >>)
           /\ errPlayer => (decoded /\ ~errTeam /\ p.player_stats # << >>)
           /\ faults + n <= MaxFaults
           /\ faults' = faults + n
           /\ players' = IF calls /\ ~t.raised /\ ~errConn /\ res.ok
                         THEN UpsertPlayer(players, row.player_id, res.rec)
                         ELSE players
           /\ existing_players' = IF ~t.raised /\ ~errConn THEN p.known
                                  ELSE known
           /\ team_advanced_stats' =
                  IF teamDone
                  THEN insert_team_advanced_stats(team_advanced_stats, t.team_stats)
                  ELSE team_advanced_stats
           /\ player_advanced_stats' =
                  IF playerDone
                  THEN insert_player_advanced_stats(player_advanced_stats,
                                                    p.player_stats)
                  ELSE player_advanced_stats
           /\ unit' = [game_id |-> game.id, has_team |-> payload.has_team,
                       team_rows |-> payload.team_rows,
                       has_player |-> payload.has_player,
                       team_stats |-> t.team_stats,
                       player_stats |-> IF ~t.raised /\ ~errConn
                                        THEN p.player_stats ELSE << >>,
                       errConn |-> errConn, errTeam |-> errTeam,
                       errPlayer |-> errPlayer,
                       raised |-> ~decoded \/ errTeam \/ errPlayer]

\* one game of extract_advanced_stats_for_date whose box score was fetched
AdvGame ==
    /\ pc = "fetch"
    /\ AdvGameBody(games[gi], existing_players)
    /\ NextGame
    /\ UNCHANGED <<teams, player_game_stats, games, ri, player_stats, lastRow,
                   rejectedAt, lastResolve, accepted, tradUnit, game_rows,
                   team_game_stats, upsert, range, script, norm, career>>

NextAdvUnits == AdvStart \/ AdvStartFails \/ AdvFetchFails \/ AdvGame

\* an advanced run is about to start on a store that holds every team and
\* any subset of the players
InitAdvUnits ==
    /\ teams = TeamIds
    /\ players \in InitialPlayerTables
    /\ player_advanced_stats = {}
    /\ player_game_stats = {}
    /\ pc = "idle"
    /\ existing_players = {}
    /\ games \in {CompletedGames(n) : n \in 0..MaxGames}
    /\ gi = 0
    /\ ri = 0
    /\ player_stats = << >>
    /\ faults = 0
    /\ lastRow = NoRow
    /\ rejectedAt = NotRejected
    /\ lastResolve = NoResolve
    /\ accepted = {}
    /\ tradUnit = NoUnit
    /\ ExtInit

SpecAdvUnits == InitAdvUnits /\ [][NextAdvUnits]_vars

\* ------------------------------------------------- repository operations

\* ids, dates and season of the games a batch or the store can name
StoreGameIds == {1, 2}
GameDates == {"d1", "d2"}
Season == "2023-24"
Statuses == {"scheduled", "in_progress", "completed"}

\* GameData objects a caller can hand to insert_games: the scores are set
\* only on a completed game (None is the default of the dataclass)
GameDatas ==
    {g \in [game_id : StoreGameIds, game_date : GameDates, season : {Season},
            home_team_id : {"T1"}, away_team_id : {"T2"},
            home_score : {NoneInt, 101}, away_score : {NoneInt, 99},
            status : Statuses] :
        /\ (g.home_score = NoneInt) <=> (g.away_score = NoneInt)
        /\ g.home_score # NoneInt => g.status = "completed"}

\* max(result[0] if result[0] else 0, result[1] if result[1] else 0)
MaxOf(S) == IF S = {} THEN 0 ELSE CHOOSE m \in S : \A x \in S : x <= m

\* SELECT COALESCE(MAX(home_team_game_number), 0), COALESCE(MAX(
\* away_team_game_number), 0) FROM games WHERE (home_team_id = team OR
\* away_team_id = team) AND season = season; the larger of the two, plus 1
TeamGameNumber(tbl, team_id, season) ==
    LET rows == {r \in tbl : /\ (r.home_team_id = team_id \/ r.away_team_id = team_id)
                             /\ r.season = season}
        nums == {r.home_team_game_number : r \in rows}
                    \cup {r.away_team_game_number : r \in rows}
    IN MaxOf({n \in nums : n # NoneInt}) + 1

\* DatabaseManager.calculate_game_numbers: the second query reads
\* game_data.game_type; on a GameData object without that attribute the
\* AttributeError is caught and every number is set to 1.  (The two
\* *_game_type_number columns are written by the same code and left out.)
calculate_game_numbers(tbl, g) ==
    IF "game_type" \in GameDataFields
    THEN [home |-> TeamGameNumber(tbl, g.home_team_id, g.season),
          away |-> TeamGameNumber(tbl, g.away_team_id, g.season)]
    ELSE [home |-> 1, away |-> 1]

\* the tuple insert_games builds for one game
GameRow(tbl, g) ==
    [id |-> g.game_id, game_date |-> g.game_date, season |-> g.season,
     status |-> g.status, home_team_id |-> g.home_team_id,
     away_team_id |-> g.away_team_id, home_score |-> g.home_score,
     away_score |-> g.away_score,
     home_team_game_number |-> calculate_game_numbers(tbl, g).home,
     away_team_game_number |-> calculate_game_numbers(tbl, g).away]

\* a batch naming the same game id twice: the statement fails whole
HasDuplicateGame(batch) ==
    \E i, j \in 1..Len(batch) : i < j /\ batch[i].game_id = batch[j].game_id

\* DatabaseManager.insert_games: INSERT INTO games ... ON CONFLICT (id) DO
\* UPDATE SET home_score, away_score, status, the game numbers, updated_at
insert_games(tbl, batch) ==
    LET incoming(id) == GameRow(tbl, batch[CHOOSE i \in 1..Len(batch) :
                                               batch[i].game_id = id])
        keys == {batch[i].game_id : i \in 1..Len(batch)}
        kept == {r \in tbl : r.id \notin keys}
        merged == {[r EXCEPT !.home_score = incoming(r.id).home_score,
                             !.away_score = incoming(r.id).away_score,
                             !.status = incoming(r.id).status,
                             !.home_team_game_number =
                                 incoming(r.id).home_team_game_number,
                             !.away_team_game_number =
                                 incoming(r.id).away_team_game_number] :
                      r \in {t \in tbl : t.id \in keys}}
        fresh == {incoming(id) : id \in {k \in keys : \A t \in tbl : t.id # k}}
    IN IF HasDuplicateGame(batch) THEN tbl ELSE kept \cup merged \cup fresh

\* PlayerGameStats records of game 1: one statistic (points) stands for the
\* twenty-odd statistic columns
PlayerGameStatsRecords ==
    [player_id : PlayerIds, game_id : {1}, team_id : TeamIds,
     points : {0, 20}, game_type : {"Home", "Away"}]

\* DatabaseManager.insert_player_game_stats: INSERT INTO player_game_stats
\* ... ON CONFLICT (player_id, game_id) DO UPDATE SET <every statistic>,
\* started, game_type, updated_at -- team_id is not in the SET list
insert_player_game_stats(tbl, batch) ==
    LET key(s) == <<s.player_id, s.game_id>>
        keys == {key(batch[i]) : i \in 1..Len(batch)}
        incoming(k) == batch[CHOOSE i \in 1..Len(batch) : key(batch[i]) = k]
        kept == {s \in tbl : key(s) \notin keys}
        merged == {[s EXCEPT !.points = incoming(key(s)).points,
                             !.game_type = incoming(key(s)).game_type] :
                      s \in {t \in tbl : key(t) \in keys}}
        fresh == {incoming(k) : k \in {q \in keys : \A t \in tbl : key(t) # q}}
    IN IF HasDuplicateKey(batch) THEN tbl ELSE kept \cup merged \cup fresh

\* TeamGameStats records of game 1
TeamGameStatsRecords ==
    [team_id : TeamIds, game_id : {1}, points : {99, 101},
     game_type : {"Home", "Away"}]

\* a batch naming the same (team_id, game_id) twice
HasDuplicateTeamKey(batch) ==
    \E i, j \in 1..Len(batch) :
        /\ i < j
        /\ batch[i].team_id = batch[j].team_id
        /\ batch[i].game_id = batch[j].game_id

\* DatabaseManager.insert_team_game_stats: INSERT INTO team_game_stats ...
\* ON CONFLICT (team_id, game_id) DO UPDATE SET <every other column>
insert_team_game_stats(tbl, batch) ==
    LET key(s) == <<s.team_id, s.game_id>>
        keys == {key(batch[i]) : i \in 1..Len(batch)}
        kept == {s \in tbl : key(s) \notin keys}
    IN IF HasDuplicateTeamKey(batch) THEN tbl
       ELSE kept \cup {batch[i] : i \in 1..Len(batch)}

\* rows of table games before the operation: written by an earlier run,
\* with or without game numbers
StoredGameRows ==
    {[id |-> g.game_id, game_date |-> "d1", season |-> g.season,
      status |-> g.status, home_team_id |-> g.home_team_id,
      away_team_id |-> g.away_team_id, home_score |-> g.home_score,
      away_score |-> g.away_score, home_team_game_number |-> NoneInt,
      away_team_game_number |-> NoneInt] : g \in GameDatas}

\* tables in which no two rows share the key
KeyedTables(rows, key(_)) ==
    {t \in SUBSET rows : \A a, b \in t : key(a) = key(b) => a = b}

GameKey(r) == r.id
PlayerStatKey(s) == <<s.player_id, s.game_id>>

\* a repository operation is about to be applied to a store
InitStore ==
    /\ teams = TeamIds
    /\ players = << >>
    /\ player_advanced_stats = {}
    /\ pc = "store"
    /\ existing_players = {}
    /\ games = << >>
    /\ gi = 0
    /\ ri = 0
    /\ player_stats = << >>
    /\ faults = 0
    /\ lastRow = NoRow
    /\ rejectedAt = NotRejected
    /\ lastResolve = NoResolve
    /\ accepted = {}
    /\ tradUnit = NoUnit
    /\ career = NoCareer
    /\ team_advanced_stats = {}
    /\ unit = NoAdvUnit
    /\ range = NoRange
    /\ script = NoScript
    /\ norm = NoNorm
    /\ upsert \in {[phase |-> 0, op |-> o, batch |-> << >>, once |-> {}] :
                      o \in {"insert_games", "insert_player_game_stats",
                             "insert_team_game_stats"}}
    /\ game_rows \in IF upsert.op = "insert_games"
                     THEN KeyedTables(StoredGameRows, GameKey) ELSE {{}}
    /\ player_game_stats \in IF upsert.op = "insert_player_game_stats"
                             THEN KeyedTables(PlayerGameStatsRecords, PlayerStatKey)
                             ELSE {{}}
    /\ team_game_stats \in IF upsert.op = "insert_team_game_stats"
                           THEN KeyedTables(TeamGameStatsRecords, TeamStatKey)
                           ELSE {{}}

\* what is left alone while a repository operation is applied
storeFrame == <<teams, players, player_advanced_stats, pc, existing_players,
                games, gi, ri, player_stats, faults, lastRow, rejectedAt,
                lastResolve, accepted, tradUnit, team_advanced_stats, unit,
                range, script, norm, career>>

\* the batch of this application: a new one the first time, the same one
\* the second time
BatchNow(records) ==
    IF upsert.phase = 0 THEN SeqUpTo(records, MaxBatch) \ {<< >>}
    ELSE {upsert.batch}

\* insert_games(batch), a first or a second time
InsertGames ==
    /\ upsert.op = "insert_games"
    /\ upsert.phase < 2
    /\ \E batch \in BatchNow(GameDatas) :
        /\ game_rows' = insert_games(game_rows, batch)
        /\ upsert' = [upsert EXCEPT !.phase = @ + 1, !.batch = batch,
                                    !.once = IF upsert.phase = 0 THEN game_rows'
                                             ELSE @]
    /\ UNCHANGED <<storeFrame, player_game_stats, team_game_stats>>

\* insert_player_game_stats(batch), a first or a second time
InsertPlayerGameStats ==
    /\ upsert.op = "insert_player_game_stats"
    /\ upsert.phase < 2
    /\ \E batch \in BatchNow(PlayerGameStatsRecords) :
        /\ player_game_stats' = insert_player_game_stats(player_game_stats, batch)
        /\ upsert' = [upsert EXCEPT !.phase = @ + 1, !.batch = batch,
                                    !.once = IF upsert.phase = 0
                                             THEN player_game_stats' ELSE @]
    /\ UNCHANGED <<storeFrame, game_rows, team_game_stats>>

\* insert_team_game_stats(batch), a first or a second time
InsertTeamGameStats ==
    /\ upsert.op = "insert_team_game_stats"
    /\ upsert.phase < 2
    /\ \E batch \in BatchNow(TeamGameStatsRecords) :
        /\ team_game_stats' = insert_team_game_stats(team_game_stats, batch)
        /\ upsert' = [upsert EXCEPT !.phase = @ + 1, !.batch = batch,
                                    !.once = IF upsert.phase = 0
                                             THEN team_game_stats' ELSE @]
    /\ UNCHANGED <<storeFrame, game_rows, player_game_stats>>

NextStore == InsertGames \/ InsertPlayerGameStats \/ InsertTeamGameStats

SpecStore == InitStore /\ [][NextStore]_vars

\* ------------------------------------- traditional loop over the games

\* the GameData object parse_game_data builds: the scores keep the default
\* None of the dataclass
GameDataOf(g, d) ==
    [game_id |-> g.game_id, game_date |-> d, season |-> Season,
     home_team_id |-> "T1", away_team_id |-> "T2", home_score |-> NoneInt,
     away_score |-> NoneInt, status |-> GameStatus(g.status_id)]

\* TraditionalStatsParser.parse_team_stats: one record per TeamStats row
\* (the home side scored 101, the visitors 99)
parse_team_stats(payload, gd) ==
    IF ~payload.has_team
    THEN [raised |-> MissingTableRaises, team_stats |-> << >>]
    ELSE [raised |-> FALSE,
          team_stats |-> [i \in 1..Len(payload.team_rows) |->
              [team_id |-> payload.team_rows[i], game_id |-> gd.game_id,
               points |-> IF payload.team_rows[i] = gd.home_team_id
                          THEN 101 ELSE 99,
               game_type |-> IF payload.team_rows[i] = gd.home_team_id
                             THEN "Home" ELSE "Away"]]]

\* TraditionalStatsParser.parse_player_stats on a rowSet of at most one row
\* (20 points stand for the statistic columns)
parse_player_stats(payload, gd, known, resolved) ==
    LET game == [id |-> gd.game_id, home_team_id |-> gd.home_team_id,
                 away_team_id |-> gd.away_team_id]
        p == parse_player_advanced_stats(payload, game, known, resolved)
    IN [raised |-> p.raised, known |-> p.known,
        player_stats |-> [i \in 1..Len(p.player_stats) |->
            [player_id |-> p.player_stats[i].player_id,
             game_id |-> p.player_stats[i].game_id,
             team_id |-> p.player_stats[i].team_id, points |-> 20,
             game_type |-> p.player_stats[i].game_type]]]

\* the lists a traditional run collects before it writes anything
NoBatches == [games |-> << >>, all_team_stats |-> << >>,
              all_player_stats |-> << >>]

\* one iteration of the loop over games_raw: the GameData is appended, and
\* for a completed game the box score is fetched and decoded, its records
\* are appended and the scores are copied from the home side's record; an
\* exception in that part (errFetch, a parser raising) is logged and the
\* next game follows, the GameData staying in the list without scores
CollectGame(acc, gd, payload, errFetch, known) ==
    LET t == parse_team_stats(payload, gd)
        p == parse_player_stats(payload, gd, known, FALSE)
        ok == gd.status = "completed" /\ ~errFetch /\ ~t.raised /\ ~p.raised
        scored == IF ok /\ \E i \in 1..Len(t.team_stats) :
                               t.team_stats[i].game_type = "Home"
                  THEN [gd EXCEPT !.home_score = 101, !.away_score = 99]
                  ELSE gd
    IN [games |-> Append(acc.games, scored),
        all_team_stats |-> IF ok THEN acc.all_team_stats \o t.team_stats
                           ELSE acc.all_team_stats,
        all_player_stats |-> IF ok THEN acc.all_player_stats \o p.player_stats
                             ELSE acc.all_player_stats]

\* -------------------------------------------------- date-range runs

\* extract_games_for_date_range / extract_advanced_stats_for_date_range is
\* called with start_date 1 and an end_date that may lie before it; every
\* player a box score names is in table players
InitRange ==
    /\ teams = TeamIds
    /\ players = [p \in PlayerIds |-> [ApiBio EXCEPT !.team_id = "T1"]]
    /\ player_advanced_stats = {}
    /\ player_game_stats = {}
    /\ pc = "range"
    /\ existing_players = {}
    /\ games = << >>
    /\ gi = 0
    /\ ri = 0
    /\ player_stats = << >>
    /\ faults = 0
    /\ lastRow = NoRow
    /\ rejectedAt = NotRejected
    /\ lastResolve = NoResolve
    /\ accepted = {}
    /\ tradUnit = NoUnit
    /\ career = NoCareer
    /\ game_rows = {}
    /\ team_advanced_stats = {}
    /\ team_game_stats = {}
    /\ upsert = NoUpsert
    /\ unit = NoAdvUnit
    /\ script = NoScript
    /\ norm = NoNorm
    /\ range \in {[pc |-> "loop", kind |-> k, end_date |-> e, current_date |-> 1,
                    visited |-> << >>, enumFailed |-> FALSE,
                    last |-> "none"] :
                      k \in {"traditional", "advanced"}, e \in 0..MaxDates}

\* what no date-range run touches
rangeFrame == <<teams, pc, games, gi, ri, player_stats, lastRow, rejectedAt,
                lastResolve, accepted, tradUnit, upsert, script, norm,
                career>>

\* while current_date <= end_date
InRange == range.pc = "loop" /\ range.current_date <= range.end_date

\* variant: the loop steps over every other day
NextDate_SkipsADay(outcome) ==
    range' = [range EXCEPT !.current_date = @ + 2,
                           !.visited = Append(@, range.current_date),
                           !.enumFailed = @ \/ outcome = "enum_fails",
                           !.last = outcome]

\* current_date += timedelta(days=1), at the end of the body or before
\* continue; last records what happened on the date
NextDate(outcome) ==
    range' = [range EXCEPT !.current_date = @ + 1,
                           !.visited = Append(@, range.current_date),
                           !.enumFailed = @ \/ outcome = "enum_fails",
                           !.last = outcome]

\* get_existing_players, fetch_games_for_date or
\* get_completed_games_for_date raises: the handler of the date logs the
\* error and the loop goes on with the next date
RangeEnumerationFails ==
    /\ InRange
    /\ faults < MaxFaults
    /\ faults' = faults + 1
    /\ NextDate("enum_fails")
    /\ UNCHANGED <<rangeFrame, players, existing_players, player_advanced_stats,
                   player_game_stats, game_rows, team_advanced_stats,
                   team_game_stats, unit>>

\* the date has no game (no completed game, for an advanced run)
RangeNoGames ==
    /\ InRange
    /\ existing_players' = get_existing_players
    /\ NextDate("no_games")
    /\ UNCHANGED <<rangeFrame, players, faults, player_advanced_stats,
                   player_game_stats, game_rows, team_advanced_stats,
                   team_game_stats, unit>>

\* advanced run, a date with one completed game: fetch_advanced_boxscore
\* raises and the handler of the game logs it
RangeAdvFetchFails ==
    /\ InRange
    /\ range.kind = "advanced"
    /\ existing_players' = get_existing_players
    /\ NextDate("fetch_fails")
    /\ UNCHANGED <<rangeFrame, players, faults, player_advanced_stats,
                   player_game_stats, game_rows, team_advanced_stats,
                   team_game_stats, unit>>

\* advanced run, a date with one completed game whose box score arrives
RangeAdvDate ==
    /\ InRange
    /\ range.kind = "advanced"
    /\ AdvGameBody([id |-> range.current_date, home_team_id |-> "T1",
                     away_team_id |-> "T2"], get_existing_players)
    /\ NextDate(IF unit'.raised THEN "game_raises" ELSE "processed")
    /\ UNCHANGED <<rangeFrame, player_game_stats, game_rows, team_game_stats>>

\* traditional run, a date whose scoreboard lists one game: the exception of
\* parse_game_data reaches the handler of the date; without it the game is
\* collected and the three batches are written (errWrite: one of the
\* inserts raises, which the handler of the date logs as well)
RangeTradDate ==
    /\ InRange
    /\ range.kind = "traditional"
    /\ existing_players' = get_existing_players
    /\ \E status_id \in {1, 2, 3}, payload \in Payloads,
          errFetch \in BOOLEAN, errWrite \in BOOLEAN :
        LET g == [game_id |-> range.current_date, status_id |-> status_id]
            acc == CollectGame(NoBatches, GameDataOf(g, range.current_date),
                               payload, errFetch, get_existing_players)
            n == (IF errFetch THEN 1 ELSE 0) + (IF errWrite THEN 1 ELSE 0)
        IN /\ ~CallsResolver(payload, get_existing_players)
           /\ faults + n <= MaxFaults
           /\ IF parse_game_data(g).raised
              THEN /\ ~errFetch /\ ~errWrite
                   /\ UNCHANGED <<faults, game_rows, team_game_stats,
                                  player_game_stats>>
              ELSE /\ faults' = faults + n
                   /\ game_rows' = IF errWrite THEN game_rows
                                   ELSE insert_games(game_rows, acc.games)
                   /\ team_game_stats' =
                          IF errWrite \/ acc.all_team_stats = << >>
                          THEN team_game_stats
                          ELSE insert_team_game_stats(team_game_stats,
                                                      acc.all_team_stats)
                   /\ player_game_stats' =
                          IF errWrite \/ acc.all_player_stats = << >>
                          THEN player_game_stats
                          ELSE insert_player_game_stats(player_game_stats,
                                                        acc.all_player_stats)
    /\ NextDate(IF parse_game_data([game_id |-> range.current_date,
                                    status_id |-> 3]).raised
                THEN "date_raises" ELSE "collected")
    /\ UNCHANGED <<rangeFrame, players, player_advanced_stats,
                   team_advanced_stats, unit>>

\* the loop condition fails: the totals are logged and the run returns
RangeEnd ==
    /\ range.pc = "loop"
    /\ range.current_date > range.end_date
    /\ range' = [range EXCEPT !.pc = "done"]
    /\ UNCHANGED <<rangeFrame, players, existing_players, faults,
                   player_advanced_stats, player_game_stats, game_rows,
                   team_advanced_stats, team_game_stats, unit>>

NextRange ==
    \/ RangeEnumerationFails
    \/ RangeNoGames
    \/ RangeAdvFetchFails
    \/ RangeAdvDate
    \/ RangeTradDate
    \/ RangeEnd

SpecRange == InitRange /\ [][NextRange]_vars

\* the interpreter keeps executing the loop: a run that can take a step
\* eventually takes one
SpecRangeFair == SpecRange /\ WF_vars(NextRange)

\* ------------------------------- single-date traditional runs

\* NBADataExtractor.insert_games (extract_nba_data.py): INSERT INTO games
\* ... ON CONFLICT (id) DO UPDATE SET home_score, away_score, status,
\* updated_at; this version writes no game numbers
NBADataExtractor_insert_games(tbl, batch) ==
    LET row(g) == [id |-> g.game_id, game_date |-> g.game_date,
                   season |-> g.season, status |-> g.status,
                   home_team_id |-> g.home_team_id,
                   away_team_id |-> g.away_team_id,
                   home_score |-> g.home_score, away_score |-> g.away_score]
        incoming(id) == row(batch[CHOOSE i \in 1..Len(batch) :
                                      batch[i].game_id = id])
        keys == {batch[i].game_id : i \in 1..Len(batch)}
        kept == {r \in tbl : r.id \notin keys}
        merged == {[r EXCEPT !.home_score = incoming(r.id).home_score,
                             !.away_score = incoming(r.id).away_score,
                             !.status = incoming(r.id).status] :
                      r \in {t \in tbl : t.id \in keys}}
        fresh == {incoming(id) : id \in {k \in keys : \A t \in tbl : t.id # k}}
    IN IF HasDuplicateGame(batch) THEN tbl ELSE kept \cup merged \cup fresh

\* the two implementations of extract_games_for_date
Modules == {"extract_nba_data", "traditionalExtractor"}

\* extract_games_for_date(d1) is about to be called, by the script
\* extract_nba_data.py or through extractors/traditionalExtractor.py; the
\* scoreboard of the date lists games 1..n, each with a status id; every
\* player a box score names is in table players
InitScript ==
    /\ teams = TeamIds
    /\ players = [p \in PlayerIds |-> [ApiBio EXCEPT !.team_id = "T1"]]
    /\ player_advanced_stats = {}
    /\ player_game_stats = {}
    /\ pc = "script"
    /\ existing_players = {}
    /\ games = << >>
    /\ gi = 0
    /\ ri = 0
    /\ player_stats = << >>
    /\ faults = 0
    /\ lastRow = NoRow
    /\ rejectedAt = NotRejected
    /\ lastResolve = NoResolve
    /\ accepted = {}
    /\ tradUnit = NoUnit
    /\ career = NoCareer
    /\ game_rows = {}
    /\ team_advanced_stats = {}
    /\ team_game_stats = {}
    /\ upsert = NoUpsert
    /\ unit = NoAdvUnit
    /\ range = NoRange
    /\ norm = NoNorm
    /\ script \in {[NoScript EXCEPT !.pc = "start", !.module = m,
                                    !.games_raw = gs] :
                       m \in Modules, gs \in SeqUpTo({1, 2, 3}, MaxGames)}

\* what no single-date traditional run touches
scriptFrame == <<teams, players, player_advanced_stats, pc, games, gi, ri,
                 player_stats, lastRow, rejectedAt, lastResolve, accepted,
                 tradUnit, team_advanced_stats, upsert, unit, range, norm,
                 career>>

\* get_existing_players and fetch_games_for_date answer: without games the
\* run returns, with games the loop over games_raw begins
ScriptStart ==
    /\ script.pc = "start"
    /\ existing_players' = get_existing_players
    /\ script' = [script EXCEPT !.pc = IF script.games_raw = << >>
                                       THEN "done" ELSE "loop",
                                !.i = 1]
    /\ UNCHANGED <<scriptFrame, faults, game_rows, team_game_stats,
                   player_game_stats>>

\* get_existing_players or fetch_games_for_date raises: logged, re-raised
ScriptEnumerationFails ==
    /\ script.pc = "start"
    /\ faults < MaxFaults
    /\ faults' = faults + 1
    /\ script' = [script EXCEPT !.pc = "failed"]
    /\ UNCHANGED <<scriptFrame, existing_players, game_rows, team_game_stats,
                   player_game_stats>>

\* one iteration of the loop over games_raw.  parse_game_data of
\* parsers/dataParsers.py raises and the run is over; the one of the
\* script builds the GameData.  Nothing is written to the store here.
ScriptGame ==
    /\ script.pc = "loop"
    /\ \E payload \in Payloads, errFetch \in BOOLEAN :
        LET g == [game_id |-> script.i, status_id |-> script.games_raw[script.i]]
            gd == GameDataOf(g, "d1")
            raised == /\ script.module = "traditionalExtractor"
                      /\ parse_game_data(g).raised
            fetches == ~raised /\ gd.status = "completed"
        IN /\ ~CallsResolver(payload, existing_players)
           /\ ~fetches => (~errFetch /\ payload = NoPayload)
           /\ script' =
                 IF raised THEN [script EXCEPT !.pc = "failed"]
                 ELSE [script EXCEPT
                         !.acc = CollectGame(@, gd, payload, errFetch,
                                             existing_players),
                         !.fetched = IF fetches THEN Append(@, gd.game_id) ELSE @,
                         !.i = @ + 1,
                         !.pc = IF script.i = Len(script.games_raw)
                                THEN "persist" ELSE "loop"]
    /\ UNCHANGED <<scriptFrame, existing_players, faults, game_rows,
                   team_game_stats, player_game_stats>>

\* the inserts after the loop, each with its own commit: games, then the
\* team records if there are any, then the player records if there are any
\* (stop names the insert that raises; "none": all of them succeed)
PersistBatches(stop) ==
    /\ game_rows' =
          IF stop = "games" THEN game_rows
          ELSE IF script.module = "extract_nba_data"
               THEN NBADataExtractor_insert_games(game_rows, script.acc.games)
               ELSE insert_games(game_rows, script.acc.games)
    /\ team_game_stats' =
          IF stop \in {"games", "team"} \/ script.acc.all_team_stats = << >>
          THEN team_game_stats
          ELSE insert_team_game_stats(team_game_stats, script.acc.all_team_stats)
    /\ player_game_stats' =
          IF stop # "none" \/ script.acc.all_player_stats = << >>
          THEN player_game_stats
          ELSE insert_player_game_stats(player_game_stats,
                                        script.acc.all_player_stats)

\* the batches are written and the run returns
ScriptPersist ==
    /\ script.pc = "persist"
    /\ PersistBatches("none")
    /\ script' = [script EXCEPT !.pc = "done"]
    /\ UNCHANGED <<scriptFrame, existing_players, faults>>

\* one of the inserts raises: what was committed before it stays, the
\* exception is logged and re-raised
ScriptPersistFails ==
    /\ script.pc = "persist"
    /\ faults < MaxFaults
    /\ faults' = faults + 1
    /\ \E stop \in {"games", "team", "player"} :
        /\ stop = "team" => script.acc.all_team_stats # << >>
        /\ stop = "player" => script.acc.all_player_stats # << >>
        /\ PersistBatches(stop)
    /\ script' = [script EXCEPT !.pc = "failed"]
    /\ UNCHANGED <<scriptFrame, existing_players>>

NextScript ==
    \/ ScriptStart
    \/ ScriptEnumerationFails
    \/ ScriptGame
    \/ ScriptPersist
    \/ ScriptPersistFails

SpecScript == InitScript /\ [][NextScript]_vars

\* ------------------------------------------------- field normalizers

\* c in s
Contains(s, c) == \E i \in 1..Len(s) : s[i] = c

\* s.split(c)
RECURSIVE Split(_, _)
Split(s, c) ==
    IF ~Contains(s, c) THEN <<s>>
    ELSE LET i == CHOOSE j \in 1..Len(s) :
                      s[j] = c /\ \A k \in 1..(j - 1) : s[k] # c
         IN <<SubSeq(s, 1, i - 1)>> \o Split(SubSeq(s, i + 1, Len(s)), c)

\* s.strip(): the white space at both ends is removed
RECURSIVE Strip(_)
Strip(s) ==
    IF s = << >> THEN s
    ELSE IF s[1] = " " THEN Strip(Tail(s))
    ELSE IF s[Len(s)] = " " THEN Strip(SubSeq(s, 1, Len(s) - 1))
    ELSE s

\* variant: the text is not cut
Take_NoCut(s, n) == s

\* s[:n]
Take(s, n) == SubSeq(s, 1, IF Len(s) < n THEN Len(s) ELSE n)

DigitChars == <<"0", "1", "2", "3", "4", "5", "6", "7", "8", "9">>
IsDigit(c) == \E d \in 1..10 : DigitChars[d] = c
DigitVal(c) == (CHOOSE d \in 1..10 : DigitChars[d] = c) - 1

\* the digits of s, read as a decimal number
RECURSIVE DecimalValue(_)
DecimalValue(s) ==
    IF s = << >> THEN 0
    ELSE 10 * DecimalValue(SubSeq(s, 1, Len(s) - 1)) + DigitVal(s[Len(s)])

\* s without the sign int() allows in front of the digits
Unsigned(s) == IF s # << >> /\ s[1] \in {"+", "-"} THEN Tail(s) ELSE s

\* int(s) succeeds: white space around, an optional sign, decimal digits
\* (the strings of this model hold no underscore)
IsIntLiteral(s) ==
    /\ Unsigned(Strip(s)) # << >>
    /\ \A i \in 1..Len(Unsigned(Strip(s))) : IsDigit(Unsigned(Strip(s))[i])

\* int(s) where it succeeds
IntOf(s) ==
    IF Strip(s)[1] = "-" THEN 0 - DecimalValue(Unsigned(Strip(s)))
    ELSE DecimalValue(Unsigned(Strip(s)))

\* str(n) for an int n
RECURSIVE StrNat(_)
StrNat(n) == IF n < 10 THEN <<DigitChars[n + 1]>>
             ELSE StrNat(n \div 10) \o <<DigitChars[(n % 10) + 1]>>

\* str(v)
Str(v) ==
    IF v.type = "none" THEN <<"N", "o", "n", "e">>
    ELSE IF v.type = "int"
         THEN IF v.n < 0 THEN <<"-">> \o StrNat(0 - v.n) ELSE StrNat(v.n)
         ELSE v.chars

\* not v
Falsy(v) ==
    \/ v.type = "none"
    \/ v.type = "int" /\ v.n = 0
    \/ v.type = "float" /\ v.chars \in {<<"0", ".", "0">>, <<"-", "0", ".", "0">>}
    \/ v.type = "str" /\ v.chars = << >>

Nan == <<"n", "a", "n">>

\* parse_minutes_to_decimal: ':' in min_str raises TypeError on a value
\* that is not a container; split(':') must give two parts and both must
\* be int literals, else 0.0.  The float returned is minutes + seconds/60,
\* kept here as the number of seconds.
parse_minutes_to_decimal(v) ==
    IF v.type # "str" THEN [NoOut EXCEPT !.raised = TRUE]
    ELSE IF ~Contains(v.chars, ":") THEN NoOut
    ELSE LET parts == Split(v.chars, ":")
         IN IF Len(parts) = 2 /\ IsIntLiteral(parts[1]) /\ IsIntLiteral(parts[2])
            THEN [NoOut EXCEPT !.value = 60 * IntOf(parts[1]) + IntOf(parts[2])]
            ELSE NoOut

\* variant: ten inches to the foot
FeetToInches_Ten(feet, inches) == feet * 10 + inches

\* int(feet) * 12 + int(inches)
FeetToInches(feet, inches) == feet * 12 + inches

\* parse_height_to_inches: 72 on a falsy value, on 'nan', without hyphen,
\* and on any exception (split('-') not giving two parts, int() failing)
parse_height_to_inches(v) ==
    IF Falsy(v) \/ Str(v) = Nan THEN [NoOut EXCEPT !.value = DefaultHeight]
    ELSE IF ~Contains(Str(v), "-") THEN [NoOut EXCEPT !.value = DefaultHeight]
    ELSE LET parts == Split(Str(v), "-")
         IN IF Len(parts) = 2 /\ IsIntLiteral(parts[1]) /\ IsIntLiteral(parts[2])
            THEN [NoOut EXCEPT !.value = FeetToInches(IntOf(parts[1]),
                                                       IntOf(parts[2]))]
            ELSE [NoOut EXCEPT !.value = DefaultHeight]

\* the words of the position labels, one character each
Forward == <<"F", "o", "r", "w", "a", "r", "d">>
Center == <<"C", "e", "n", "t", "e", "r">>
Guard == <<"G", "u", "a", "r", "d">>
Point == <<"P", "o", "i", "n", "t">>
Shooting == <<"S", "h", "o", "o", "t", "i", "n", "g">>
Small == <<"S", "m", "a", "l", "l">>
Power == <<"P", "o", "w", "e", "r">>

\* position_mapping, as pairs <<label, abbreviation>>
position_mapping ==
    {<<Forward \o <<"-">> \o Center, <<"F", "-", "C">>>>,
     <<Center \o <<"-">> \o Forward, <<"C", "-", "F">>>>,
     <<Guard \o <<"-">> \o Forward, <<"G", "-", "F">>>>,
     <<Forward \o <<"-">> \o Guard, <<"F", "-", "G">>>>,
     <<Point \o <<" ">> \o Guard, <<"P", "G">>>>,
     <<Shooting \o <<" ">> \o Guard, <<"S", "G">>>>,
     <<Small \o <<" ">> \o Forward, <<"S", "F">>>>,
     <<Power \o <<" ">> \o Forward, <<"P", "F">>>>,
     <<Center, <<"C">>>>,
     <<Forward, <<"F">>>>,
     <<Guard, <<"G">>>>}

\* '-'.join(parts)
RECURSIVE Join(_)
Join(parts) ==
    IF parts = << >> THEN << >>
    ELSE IF Len(parts) = 1 THEN parts[1]
    ELSE parts[1] \o <<"-">> \o Join(Tail(parts))

\* [part[0] for part in parts if part]
RECURSIVE Initials(_)
Initials(parts) ==
    IF parts = << >> THEN << >>
    ELSE IF parts[1] = << >> THEN Initials(Tail(parts))
    ELSE <<<<parts[1][1]>>>> \o Initials(Tail(parts))

\* normalize_position: 'G' on a falsy value and on 'nan'; the stripped text
\* is looked up in position_mapping; a longer text is cut to 10 characters
\* (the initials of its parts when it holds a hyphen); else it is returned
\* as it is
normalize_position(v) ==
    IF Falsy(v) \/ Str(v) = Nan THEN [NoOut EXCEPT !.text = <<"G">>]
    ELSE LET position == Strip(Str(v))
         IN IF \E m \in position_mapping : m[1] = position
            THEN [NoOut EXCEPT !.text =
                     (CHOOSE m \in position_mapping : m[1] = position)[2]]
            ELSE IF Len(position) > 10
                 THEN IF Contains(position, "-")
                      THEN [NoOut EXCEPT !.text =
                               Take(Join(Initials(Split(position, "-"))), 10)]
                      ELSE [NoOut EXCEPT !.text = Take(position, 10)]
                 ELSE [NoOut EXCEPT !.text = position]

\* days of a month of the proleptic Gregorian calendar
DaysInMonth(y, m) ==
    IF m = 2
    THEN IF (y % 4 = 0 /\ y % 100 # 0) \/ y % 400 = 0 THEN 29 ELSE 28
    ELSE IF m \in {4, 6, 9, 11} THEN 30 ELSE 31

\* all characters of s are digits
AllDigits(s) == \A i \in 1..Len(s) : IsDigit(s[i])

\* datetime.strptime(text, '%Y-%m-%d') succeeds: four digits, a month
\* 1..12 and a day of that month, each of one or two digits, nothing else
IsDate(text) ==
    LET parts == Split(text, "-")
    IN /\ Len(parts) = 3
       /\ Len(parts[1]) = 4 /\ AllDigits(parts[1])
       /\ Len(parts[2]) \in {1, 2} /\ AllDigits(parts[2])
       /\ Len(parts[3]) \in {1, 2} /\ AllDigits(parts[3])
       /\ DecimalValue(parts[2]) \in 1..12
       /\ DecimalValue(parts[3]) \in
              1..DaysInMonth(DecimalValue(parts[1]), DecimalValue(parts[2]))

\* calculate_age_from_birthdate: None on a falsy value, on 'nan' and on any
\* exception; else the years between the date in the first ten characters
\* and today (a <<year, month, day>>), one less before the birthday
calculate_age_from_birthdate(v, today) ==
    IF Falsy(v) \/ Str(v) = Nan THEN [NoOut EXCEPT !.value = NoneAge]
    ELSE LET text == Take(Str(v), 10)
             parts == Split(text, "-")
             y == DecimalValue(parts[1])
             m == DecimalValue(parts[2])
             d == DecimalValue(parts[3])
             before == today[2] < m \/ (today[2] = m /\ today[3] < d)
         IN IF IsDate(text)
            THEN [NoOut EXCEPT !.value = today[1] - y - (IF before THEN 1 ELSE 0)]
            ELSE [NoOut EXCEPT !.value = NoneAge]

\* n >= 1 sequences of S joined into one
RECURSIVE Flatten(_)
Flatten(ss) == IF ss = << >> THEN << >> ELSE ss[1] \o Flatten(Tail(ss))

\* values handed to parse_minutes_to_decimal
MinutesInputs ==
    {PyNone, PyInt(12), PyFloat(<<"1", "2", ".", "5">>)}
        \cup {PyStr(t) : t \in SeqUpTo({"1", "2", ":", " ", "x"}, MaxLen)}

\* values handed to parse_height_to_inches
HeightInputs ==
    {PyNone, PyInt(0), PyInt(601), PyInt(0 - 5), PyFloat(<<"6", ".", "1">>),
     PyFloat(Nan), PyStr(Nan)}
        \cup {PyStr(t) : t \in SeqUpTo({"6", "1", "-", " ", "x"}, MaxLen)}

\* values handed to calculate_age_from_birthdate: ISO dates with or
\* without the time part, and other text
BirthdateInputs ==
    {PyNone, PyInt(5), PyStr(<< >>), PyStr(Nan), PyFloat(Nan), PyStr(<<"x">>),
     PyStr(<<"1", "9", "8", "9">>)}
        \cup {PyStr(y \o <<"-">> \o m \o <<"-">> \o d \o t) :
                y \in {<<"1", "9", "8", "9">>, <<"2", "0", "0", "0">>},
                m \in {<<"0", "2">>, <<"1", "2">>, <<"1", "3">>, <<"x">>},
                d \in {<<"0", "9">>, <<"2", "9">>, <<"3", "1">>, <<"4", "0">>},
                t \in {<< >>, <<"T", "0", "0", ":", "0", "0", ":", "0", "0">>}}

\* datetime.now() on the days the model looks at
Todays == {<<2026, 11, 3>>, <<2028, 2, 29>>, <<2030, 12, 9>>}

\* values handed to normalize_position: labels made of words, blanks,
\* hyphens and 'nan'
PositionTokens == {Forward, Center, Guard, Point, <<" ">>, <<"-">>, Nan}
PositionInputs ==
    {PyNone, PyInt(0), PyInt(5), PyFloat(Nan)}
        \cup {PyStr(Flatten(ts)) : ts \in SeqUpTo(PositionTokens, MaxTokens)}

\* GAME_ID values of a scoreboard: texts of digits
GameIdInputs == {PyStr(t) : t \in SeqUpTo({"0", "1", "2", "4"}, MaxLen)}

\* GAME_STATUS_ID values of a scoreboard
StatusIds == {1, 2, 3, 4}

\* the game type parse_game_data computes from game_id[:3]
GameTypeOf(game_id) ==
    IF Len(game_id) >= 3
    THEN IF Take(game_id, 3) = <<"0", "0", "1">> THEN "preseason"
         ELSE IF Take(game_id, 3) = <<"0", "0", "4">> THEN "playoff"
         ELSE "regular"
    ELSE "regular"

\* GameDataParser.parse_game_data on the GAME_ID and GAME_STATUS_ID of a
\* game dict: status and game type are computed, then GameData(...) is
\* called with the keyword game_type
GameDataParser_parse_game_data(game_id, status_id) ==
    IF ParseGameDataKwargs \subseteq GameDataFields
    THEN [NoOut EXCEPT !.game_type = GameTypeOf(game_id.chars),
                       !.status = GameStatus(status_id)]
    ELSE [NoOut EXCEPT !.raised = TRUE]

\* a normalizer or parser is about to be called on a value
InitFields ==
    /\ teams = TeamIds
    /\ players = << >>
    /\ player_advanced_stats = {}
    /\ player_game_stats = {}
    /\ pc = "fields"
    /\ existing_players = {}
    /\ games = << >>
    /\ gi = 0
    /\ ri = 0
    /\ player_stats = << >>
    /\ faults = 0
    /\ lastRow = NoRow
    /\ rejectedAt = NotRejected
    /\ lastResolve = NoResolve
    /\ accepted = {}
    /\ tradUnit = NoUnit
    /\ career = NoCareer
    /\ game_rows = {}
    /\ team_advanced_stats = {}
    /\ team_game_stats = {}
    /\ upsert = NoUpsert
    /\ unit = NoAdvUnit
    /\ range = NoRange
    /\ script = NoScript
    /\ norm \in
         {[NoNorm EXCEPT !.fn = "parse_minutes_to_decimal", !.input = v] :
              v \in MinutesInputs}
         \cup {[NoNorm EXCEPT !.fn = "parse_height_to_inches", !.input = v] :
                  v \in HeightInputs}
         \cup {[NoNorm EXCEPT !.fn = "calculate_age_from_birthdate",
                              !.input = v, !.today = t] :
                  v \in BirthdateInputs, t \in Todays}
         \cup {[NoNorm EXCEPT !.fn = "normalize_position", !.input = v] :
                  v \in PositionInputs}
         \cup {[NoNorm EXCEPT !.fn = "parse_game_data", !.input = v,
                              !.status_id = i] :
                  v \in GameIdInputs, i \in StatusIds}

\* what no normalizer touches
fieldsFrame == <<teams, players, player_advanced_stats, player_game_stats, pc,
                 existing_players, games, gi, ri, player_stats, faults,
                 lastRow, rejectedAt, lastResolve, accepted, tradUnit,
                 game_rows, team_advanced_stats, team_game_stats, upsert,
                 unit, range, script, career>>

ParseMinutes ==
    /\ norm.fn = "parse_minutes_to_decimal"
    /\ norm.calls = 0
    /\ norm' = [norm EXCEPT !.calls = 1,
                            !.out = parse_minutes_to_decimal(norm.input)]
    /\ UNCHANGED fieldsFrame

ParseHeight ==
    /\ norm.fn = "parse_height_to_inches"
    /\ norm.calls = 0
    /\ norm' = [norm EXCEPT !.calls = 1,
                            !.out = parse_height_to_inches(norm.input)]
    /\ UNCHANGED fieldsFrame

CalculateAge ==
    /\ norm.fn = "calculate_age_from_birthdate"
    /\ norm.calls = 0
    /\ norm' = [norm EXCEPT !.calls = 1,
                            !.out = calculate_age_from_birthdate(norm.input,
                                                                 norm.today)]
    /\ UNCHANGED fieldsFrame

NormalizePosition ==
    /\ norm.fn = "normalize_position"
    /\ norm.calls = 0
    /\ norm' = [norm EXCEPT !.calls = 1,
                            !.out = normalize_position(norm.input)]
    /\ UNCHANGED fieldsFrame

\* the label returned is normalized once more
NormalizePositionAgain ==
    /\ norm.fn = "normalize_position"
    /\ norm.calls = 1
    /\ norm' = [norm EXCEPT !.calls = 2,
                            !.again = normalize_position(PyStr(norm.out.text))]
    /\ UNCHANGED fieldsFrame

ParseGameData ==
    /\ norm.fn = "parse_game_data"
    /\ norm.calls = 0
    /\ norm' = [norm EXCEPT !.calls = 1,
                            !.out = GameDataParser_parse_game_data(
                                        norm.input, norm.status_id)]
    /\ UNCHANGED fieldsFrame

NextFields ==
    \/ ParseGameData
    \/ ParseMinutes
    \/ ParseHeight
    \/ CalculateAge
    \/ NormalizePosition
    \/ NormalizePositionAgain

SpecFields == InitFields /\ [][NextFields]_vars

\* ------------------------------------------------------------ career run
\* extractors/careerExtractor.py: one provider payload per player, six
\* tables decoded from it, six upserts, and the loops over a list of players

Seasons == <<"2022-23", "2023-24">>
TOT == "TOT"

\* a row of a season table of the provider: SEASON_ID, TEAM_ID and
\* TEAM_ABBREVIATION; the provider's total row of a season spent with
\* several teams has TEAM_ID 0 and TEAM_ABBREVIATION "TOT"
SeasonRow(season, abbr) ==
    [SEASON_ID |-> season,
     TEAM_ID |-> CASE abbr = "ATL" -> "T1" [] abbr = "BOS" -> "T2"
                   [] OTHER -> "0",
     TEAM_ABBREVIATION |-> abbr]

OneSeason == <<SeasonRow(Seasons[1], "ATL")>>
TradedSeason == <<SeasonRow(Seasons[1], "ATL"), SeasonRow(Seasons[1], "BOS"),
                  SeasonRow(Seasons[1], TOT)>>
TwoSeasons == <<SeasonRow(Seasons[1], "ATL"), SeasonRow(Seasons[2], "BOS")>>
SeasonRowSets == {<< >>, OneSeason, TradedSeason, TwoSeasons}

\* a result set of the payload: listed under its name or not, and its rowSet
ResultSet(rows) == [present |-> TRUE, rowSet |-> rows]
MissingResultSet == [present |-> FALSE, rowSet |-> << >>]

\* the one row of a career table that goes with the rows of a season table
CareerRowSet(rows) ==
    IF rows = << >> THEN << >> ELSE <<[TEAM_ID |-> "0", GP |-> Len(rows)]>>

\* the career payloads of the provider (playercareerstats): result sets by
\* name
CareerPayloads ==
    {[SeasonTotalsRegularSeason |-> regular,
      CareerTotalsRegularSeason |->
          IF regular.present THEN ResultSet(CareerRowSet(regular.rowSet))
          ELSE MissingResultSet,
      SeasonTotalsPostSeason |-> post,
      CareerTotalsPostSeason |->
          IF post.present THEN ResultSet(CareerRowSet(post.rowSet))
          ELSE MissingResultSet,
      SeasonRankingsRegularSeason |->
          IF ranked THEN regular ELSE MissingResultSet,
      SeasonRankingsPostSeason |->
          IF ranked THEN post ELSE MissingResultSet] :
        regular \in {ResultSet(rows) : rows \in SeasonRowSets}
                        \cup {MissingResultSet},
        post \in {MissingResultSet, ResultSet(OneSeason)},
        ranked \in BOOLEAN}

\* the loop over rowSet of the four season parsers: a row whose
\* TEAM_ABBREVIATION is 'TOT' is skipped, every other row becomes a record
SeasonRecords(season_data, player_id) ==
    IF ~season_data.present THEN << >>
    ELSE LET kept == SelectSeq(season_data.rowSet,
                         LAMBDA row : row.TEAM_ABBREVIATION # TOT)
         IN [k \in 1..Len(kept) |->
                [player_id |-> player_id,
                 season_id |-> kept[k].SEASON_ID,
                 team_id |-> IF kept[k].TEAM_ID = "0" THEN NULL
                             ELSE kept[k].TEAM_ID,
                 team_abbreviation |-> kept[k].TEAM_ABBREVIATION]]

parse_season_totals_regular(career_data, player_id) ==
    SeasonRecords(career_data.SeasonTotalsRegularSeason, player_id)

parse_season_totals_playoffs(career_data, player_id) ==
    SeasonRecords(career_data.SeasonTotalsPostSeason, player_id)

parse_season_rankings_regular(career_data, player_id) ==
    SeasonRecords(career_data.SeasonRankingsRegularSeason, player_id)

parse_season_rankings_playoffs(career_data, player_id) ==
    SeasonRecords(career_data.SeasonRankingsPostSeason, player_id)

\* the career parsers: None without the result set or without a row, else
\* the record of the first row; the caller wraps the record in a list, which
\* is what is returned here (the empty list for None)
CareerRecord(career_data_set, player_id) ==
    IF ~career_data_set.present \/ career_data_set.rowSet = << >>
    THEN << >>
    ELSE <<[player_id |-> player_id,
            team_id |-> IF career_data_set.rowSet[1].TEAM_ID = "0" THEN NULL
                        ELSE career_data_set.rowSet[1].TEAM_ID,
            games_played |-> career_data_set.rowSet[1].GP]>>

parse_career_totals_regular(career_data, player_id) ==
    CareerRecord(career_data.CareerTotalsRegularSeason, player_id)

parse_career_totals_playoffs(career_data, player_id) ==
    CareerRecord(career_data.CareerTotalsPostSeason, player_id)

\* the career tables in the order extract_player_career_stats writes them
CareerTables == <<"season_totals_regular", "career_totals_regular",
                  "season_totals_playoffs", "career_totals_playoffs",
                  "season_rankings_regular", "season_rankings_playoffs">>

\* "Parse all career data types": the batch of each table
CareerBatches(career_data, player_id) ==
    [season_totals_regular |->
         parse_season_totals_regular(career_data, player_id),
     career_totals_regular |->
         parse_career_totals_regular(career_data, player_id),
     season_totals_playoffs |->
         parse_season_totals_playoffs(career_data, player_id),
     career_totals_playoffs |->
         parse_career_totals_playoffs(career_data, player_id),
     season_rankings_regular |->
         parse_season_rankings_regular(career_data, player_id),
     season_rankings_playoffs |->
         parse_season_rankings_playoffs(career_data, player_id)]

\* ON CONFLICT (player_id) of the career tables, ON CONFLICT (player_id,
\* season_id) of the season tables
ConflictKey(table, r) ==
    IF table \in {"career_totals_regular", "career_totals_playoffs"}
    THEN <<r.player_id>>
    ELSE <<r.player_id, r.season_id>>

\* two rows of the batch propose the same conflict key: the one INSERT ...
\* ON CONFLICT DO UPDATE statement of the batch cannot update a row twice
\* and raises
SameKeyTwice(table, batch) ==
    \E a, b \in 1..Len(batch) :
        a # b /\ ConflictKey(table, batch[a]) = ConflictKey(table, batch[b])

\* the upsert of a career table, applied to its rows: a row with the key of
\* a record of the batch is replaced by the record, the others are kept
insert_career_rows(table, rows, batch) ==
    {r \in rows : \A k \in 1..Len(batch) :
                      ConflictKey(table, batch[k]) # ConflictKey(table, r)}
        \cup {batch[k] : k \in 1..Len(batch)}

\* "Insert into database", from the k-th table on: an empty batch is not
\* handed over; an upsert that raises (store error at stage err, or a batch
\* with one key twice) ends the extraction with what was committed before
RECURSIVE InsertFrom(_, _, _, _, _)
InsertFrom(store, batches, k, err, handed) ==
    IF k > Len(CareerTables) THEN [ok |-> TRUE, store |-> store,
                                   handed |-> handed]
    ELSE LET table == CareerTables[k]
             batch == batches[table]
             now == Append(handed, [table |-> table, batch |-> batch])
         IN IF batch = << >>
            THEN InsertFrom(store, batches, k + 1, err, handed)
            ELSE IF err = k \/ SameKeyTwice(table, batch)
            THEN [ok |-> FALSE, store |-> store, handed |-> now]
            ELSE InsertFrom([store EXCEPT
                                ![table] = insert_career_rows(table, @, batch)],
                            batches, k + 1, err, now)

\* extract_player_career_stats: True after every upsert, False (and a log
\* line) for any exception: the fetch, a parser, an upsert
extract_player_career_stats(store, player_id, career_data, errFetch, err) ==
    IF errFetch THEN [ok |-> FALSE, store |-> store, handed |-> << >>]
    ELSE InsertFrom(store, CareerBatches(career_data, player_id), 1, err,
                    << >>)

\* ORDER BY id
PlayerOrder == <<"p1", "p2">>

\* get_all_player_ids
get_all_player_ids == SelectSeq(PlayerOrder, LAMBDA p : p \in DOMAIN players)

\* get_active_player_ids: WHERE team_id IS NOT NULL
get_active_player_ids ==
    SelectSeq(PlayerOrder,
              LAMBDA p : p \in DOMAIN players /\ players[p].team_id # NULL)

\* player_ids[:max_players]
Slice(ids, n) == SubSeq(ids, 1, IF n < Len(ids) THEN n ELSE Len(ids))

\* the player lists a caller of extract_career_stats_for_player_list passes:
\* distinct players, in any order
PlayerLists ==
    {ids \in UNION {[1..n -> PlayerIds] : n \in 0..MaxPlayers} :
        \A a, b \in 1..Len(ids) : a # b => ids[a] # ids[b]}

\* table players of a career run: every subset of players, each with or
\* without a current team
CareerPlayerTables ==
    {[p \in ids |-> [team_id |-> IF p \in active THEN "T1" ELSE NULL,
                     age |-> ApiBio.age,
                     position |-> ApiBio.position,
                     height_inches |-> ApiBio.height_inches,
                     weight_pounds |-> ApiBio.weight_pounds,
                     years_experience |-> ApiBio.years_experience]] :
        ids \in SUBSET PlayerIds, active \in SUBSET PlayerIds}

\* a career run is about to start: over all players (with max_players None,
\* 0 or more), over a given list, or over the active players
InitCareer ==
    /\ teams = TeamIds
    /\ players \in CareerPlayerTables
    /\ player_advanced_stats = {}
    /\ player_game_stats = {}
    /\ pc = "career"
    /\ existing_players = {}
    /\ games = << >>
    /\ gi = 0
    /\ ri = 0
    /\ player_stats = << >>
    /\ faults = 0
    /\ lastRow = NoRow
    /\ rejectedAt = 0
    /\ lastResolve = NoResolve
    /\ accepted = {}
    /\ tradUnit = NoUnit
    /\ ExtInitButCareer
    /\ \E entry \in {"all_players", "player_list", "active_players"},
          max_players \in {NoneInt} \cup 0..MaxPlayers,
          given \in PlayerLists :
          /\ entry # "all_players" => max_players = NoneInt
          /\ entry # "player_list" => given = << >>
          /\ career = [NoCareer EXCEPT !.pc = "start", !.entry = entry,
                                       !.max_players = max_players,
                                       !.player_ids = given]

careerFrame == <<teams, players, player_advanced_stats, player_game_stats, pc,
                 existing_players, games, gi, ri, player_stats, faults,
                 lastRow, rejectedAt, lastResolve, accepted, tradUnit,
                 game_rows, team_advanced_stats, team_game_stats, upsert,
                 unit, range, script, norm>>

\* the player list of the run is obtained: the ids of table players, cut to
\* max_players when max_players is truthy; the given list; the active ids
CareerStart ==
    /\ career.pc = "start"
    /\ career' = [career EXCEPT
           !.pc = "loop",
           !.player_ids =
               CASE career.entry = "all_players" ->
                        IF career.max_players # NoneInt
                           /\ career.max_players # 0
                        THEN Slice(get_all_player_ids, career.max_players)
                        ELSE get_all_player_ids
                 [] career.entry = "active_players" -> get_active_player_ids
                 [] OTHER -> career.player_ids]
    /\ UNCHANGED careerFrame

\* get_all_player_ids or get_active_player_ids raises: logged and re-raised
CareerEnumerationFails ==
    /\ career.pc = "start"
    /\ career.entry \in {"all_players", "active_players"}
    /\ career' = [career EXCEPT !.pc = "failed"]
    /\ UNCHANGED careerFrame

\* variant: the loop ends at the first player whose extraction failed
CountPlayer_StopsAtFailure(result, player_id, rows) ==
    [career EXCEPT
        !.i = IF result.ok THEN @ + 1 ELSE Len(career.player_ids) + 1,
        !.successful = IF result.ok THEN @ + 1 ELSE @,
        !.failed = IF result.ok THEN @ ELSE @ + 1,
        !.processed = Append(@, player_id),
        !.store = result.store,
        !.last = [player_id |-> player_id, rows |-> rows,
                  handed |-> result.handed, ok |-> result.ok]]

\* one turn of "for i, player_id in enumerate(player_ids, 1)": the result
\* of extract_player_career_stats is counted and the loop goes on
CountPlayer(result, player_id, rows) ==
    [career EXCEPT
        !.i = @ + 1,
        !.successful = IF result.ok THEN @ + 1 ELSE @,
        !.failed = IF result.ok THEN @ ELSE @ + 1,
        !.processed = Append(@, player_id),
        !.store = result.store,
        !.last = [player_id |-> player_id, rows |-> rows,
                  handed |-> result.handed, ok |-> result.ok]]

CareerInLoop == career.pc = "loop" /\ career.i <= Len(career.player_ids)

\* the provider does not answer for this player
CareerPlayerFetchFails ==
    /\ CareerInLoop
    /\ LET player_id == career.player_ids[career.i]
       IN career' = CountPlayer(
              extract_player_career_stats(career.store, player_id,
                  CHOOSE cd \in CareerPayloads : TRUE, TRUE, 0),
              player_id, << >>)
    /\ UNCHANGED careerFrame

\* the provider answers for this player: its tables are decoded and written
CareerPlayer ==
    /\ CareerInLoop
    /\ \E career_data \in CareerPayloads, err \in 0..Len(CareerTables) :
          LET player_id == career.player_ids[career.i]
          IN career' = CountPlayer(
                 extract_player_career_stats(career.store, player_id,
                                             career_data, FALSE, err),
                 player_id, career_data.SeasonTotalsRegularSeason.rowSet)
    /\ UNCHANGED careerFrame

\* the list is exhausted: "Career stats extraction completed"
CareerEnd ==
    /\ career.pc = "loop"
    /\ career.i > Len(career.player_ids)
    /\ career' = [career EXCEPT !.pc = "done"]
    /\ UNCHANGED careerFrame

NextCareer ==
    \/ CareerStart
    \/ CareerEnumerationFails
    \/ CareerPlayerFetchFails
    \/ CareerPlayer
    \/ CareerEnd

SpecCareer == InitCareer /\ [][NextCareer]_vars

\* ------------------------------------------------------------ typing
TypeOK ==
    /\ teams \subseteq TeamIds
    /\ DOMAIN players \subseteq PlayerIds
    /\ pc \in {"idle", "fetch", "rows", "done", "failed"}
    /\ existing_players \subseteq PlayerIds
    /\ gi \in 0..MaxGames
    /\ ri \in 0..MaxRows
    /\ faults \in 0..MaxFaults
    /\ Len(player_stats) <= MaxRows
    /\ rejectedAt \in NotRejected..MaxRows

\* ================================================================ claims

\* the latest step called add_unknown_player
Called == lastResolve.player_id # NULL

\* what fetch_player_details handed to that call
CalledDetails == fetch_player_details(lastResolve.answer)

\* no store call of that add_unknown_player call failed
NoStoreError ==
    ~lastResolve.errApi /\ ~lastResolve.errFinal /\ ~lastResolve.errWrite

\* the row of table players for the player of that call
WrittenRow == players[lastResolve.player_id]

\* ---------------------------------------------------------------- C1
\* C1: every Player row a step writes (a new key, or a changed row) carries
\* a team_id that is a row of table teams at that moment, for every content
\* of table teams, every provider answer and every store error.
C1_NoDanglingTeam ==
    [][\A p \in DOMAIN players' :
          (p \notin DOMAIN players \/ players'[p] # players[p])
              => players'[p].team_id \in teams']_vars

\* C1 witness: a row was written although the team of the statistics row is
\* not a local team (the provider's team was taken)
C1_Witness ==
    /\ lastRow.outcome = "accepted"
    /\ lastRow.team_id \notin teams
    /\ lastRow.player_id \in DOMAIN players
    /\ players[lastRow.player_id].team_id \in teams

C3_NoTeamUsesGameTeam ==
    (/\ Called
     /\ lastResolve.answer \in {"empty", "int0", "str0", "none"})
        => /\ lastResolve.rec.team_id = lastResolve.game_team_id
           /\ lastResolve.consulted = {lastResolve.game_team_id}
           /\ lastResolve.ok => WrittenRow.team_id = lastResolve.game_team_id

\* C3 witness: the provider answered "0" and the player is on the row's team
C3_Witness ==
    /\ Called
    /\ lastResolve.answer = "str0"
    /\ lastResolve.ok
    /\ WrittenRow.team_id = lastResolve.game_team_id

\* ---------------------------------------------------------------- C4
\* C4: the detail fetch succeeded and the provider's team is non-empty but
\* not a row of table teams => the team chosen is the team of the statistics
\* row.
C4_UnknownProviderTeamUsesGameTeam ==
    (/\ Called
     /\ CalledDetails.found
     /\ ~NoCurrentTeam(CalledDetails.team_id)
     /\ CalledDetails.team_id \notin teams)
        => /\ lastResolve.rec.team_id = lastResolve.game_team_id
           /\ lastResolve.ok => WrittenRow.team_id = lastResolve.game_team_id

\* C4 witness: provider team T2 is not local, the row's team T1 is, and the
\* player is on T1
C4_Witness ==
    /\ Called
    /\ lastResolve.answer = "T2"
    /\ "T2" \notin teams
    /\ lastResolve.game_team_id = "T1"
    /\ lastResolve.ok
    /\ WrittenRow.team_id = "T1"

\* ---------------------------------------------------------------- C5
\* the Player row of the fallback: the row's team and the documented defaults
FallbackRow(game_team_id) ==
    [team_id |-> game_team_id, age |-> NoneAge, position |-> "G",
     height_inches |-> 72, weight_pounds |-> 200, years_experience |-> 0]

ReadsRow == ri' = ri + 1

\* the step appended to the batch the record of the row it read
AppendsRecord ==
    /\ Len(player_stats') = Len(player_stats) + 1
    /\ SubSeq(player_stats', 1, Len(player_stats)) = player_stats
    /\ player_stats'[Len(player_stats')].player_id = lastRow'.player_id
    /\ player_stats'[Len(player_stats')].team_id = lastRow'.team_id
    /\ player_stats'[Len(player_stats')].game_id = games[gi].id

\* C7: a step that reads a played row of a player of the known-player set
\* issues no detail fetch, leaves table players and the known-player set
\* unchanged, and appends the record of the row as it is.
C7_KnownPlayerNoAction ==
    [][(/\ ReadsRow
        /\ lastRow'.outcome # "no_minutes"
        /\ lastRow'.player_id \in existing_players)
          => /\ lastRow'.outcome = "known"
             /\ players' = players
             /\ existing_players' = existing_players
             /\ AppendsRecord]_vars

\* C7 witness: the latest row read is the row of a player that was in table
\* players when the run started
C7_Witness ==
    /\ pc = "rows"
    /\ lastRow.outcome = "known"
    /\ lastRow.player_id \in existing_players
    /\ lastRow.player_id \notin accepted
    /\ player_stats # << >>

\* ---------------------------------------------------------------- C8
\* C8: an id add_unknown_player accepted is in the known-player set from then
\* on, and for the rest of the run no step calls add_unknown_player for it or
\* writes its Player row.
C8_AcceptedNotResolvedAgain ==
    /\ [](accepted \subseteq existing_players)
    /\ [][/\ existing_players \subseteq existing_players'
          /\ \A p \in accepted :
                /\ (ReadsRow /\ lastRow'.player_id = p)
                       => lastRow'.outcome \in {"known", "no_minutes"}
                /\ players'[p] = players[p]]_vars

\* C8 witness: in the second game of the date, the row read is the row of a
\* player accepted earlier in the run, used as a known player
C8_Witness ==
    /\ pc = "rows"
    /\ gi = 2
    /\ lastRow.outcome = "known"
    /\ lastRow.player_id \in accepted
    /\ Len(player_stats) = 1

\* ---------------------------------------------------------------- C9
\* C9: a step in which add_unknown_player rejects the row leaves the batch,
\* the known-player set and table players as they are and stays in the loop;
\* a step that reads a row of a known or accepted player appends its record
\* behind the records of the earlier rows.
C9_RejectedRowDropped ==
    /\ [][(ReadsRow /\ lastRow'.outcome = "rejected")
             => /\ player_stats' = player_stats
                /\ existing_players' = existing_players
                /\ players' = players
                /\ pc' = "rows"]_vars
    /\ [][(ReadsRow /\ lastRow'.outcome \in {"known", "accepted"})
             => AppendsRecord /\ pc' = "rows"]_vars

\* C9 witness: one record was in the batch when a row was rejected, and the
\* record of a later row of another player is behind it in the batch
C9_Witness ==
    /\ pc = "rows"
    /\ rejectedAt = 1
    /\ Len(player_stats) = 2
    /\ player_stats[1].player_id # player_stats[2].player_id
    /\ lastRow.outcome \in {"known", "accepted"}

\* --------------------------------------------------------------- C10
\* C10: a traditional run is over; the scoreboard listed a completed game
\* whose box score has a played row of an unknown player on a local team T,
\* and the provider's detail answer for that player has an empty team =>
\* table players holds the player on T and table player_game_stats holds the
\* player's row of that game on T.
C10_EndToEndUnknownPlayer ==
    (/\ tradUnit.ran
     /\ pc \in {"done", "failed"}
     /\ tradUnit.status_id = 3
     /\ ~NoMinutes(tradUnit.row.min)
     /\ tradUnit.row.player_id \notin existing_players
     /\ tradUnit.row.team_id \in teams
     /\ tradUnit.answer = "empty")
        => /\ tradUnit.row.player_id \in DOMAIN players
           /\ players[tradUnit.row.player_id].team_id = tradUnit.row.team_id
           /\ \E s \in player_game_stats :
                 /\ s.player_id = tradUnit.row.player_id
                 /\ s.game_id = tradUnit.game_id
                 /\ s.team_id = tradUnit.row.team_id

\* --------------------------------------------------------------- C12
\* the table the repository operation under way writes
StoreTable ==
    CASE upsert.op = "insert_games" -> game_rows
      [] upsert.op = "insert_player_game_stats" -> player_game_stats
      [] OTHER -> team_game_stats

C13_ConflictOverwritesEveryField ==
    /\ (upsert.phase >= 1 /\ upsert.op = "insert_games"
           /\ ~HasDuplicateGame(upsert.batch))
        => \A i \in 1..Len(upsert.batch) :
              \E r \in game_rows :
                 /\ r.id = upsert.batch[i].game_id
                 /\ r.game_date = upsert.batch[i].game_date
                 /\ r.season = upsert.batch[i].season
                 /\ r.status = upsert.batch[i].status
                 /\ r.home_team_id = upsert.batch[i].home_team_id
                 /\ r.away_team_id = upsert.batch[i].away_team_id
                 /\ r.home_score = upsert.batch[i].home_score
                 /\ r.away_score = upsert.batch[i].away_score
    /\ (upsert.phase >= 1 /\ upsert.op = "insert_player_game_stats"
           /\ ~HasDuplicateKey(upsert.batch))
        => \A i \in 1..Len(upsert.batch) : upsert.batch[i] \in player_game_stats
    /\ (upsert.phase >= 1 /\ upsert.op = "insert_team_game_stats"
           /\ ~HasDuplicateTeamKey(upsert.batch))
        => \A i \in 1..Len(upsert.batch) : upsert.batch[i] \in team_game_stats

\* --------------------------------------------------------------- C14
\* C14: every row of table games that carries a score or a per-team game
\* number has status completed.
C14_ScoresAndNumbersOnlyWhenCompleted ==
    \A r \in game_rows :
        (\/ r.home_score # NoneInt
         \/ r.away_score # NoneInt
         \/ r.home_team_game_number # NoneInt
         \/ r.away_team_game_number # NoneInt)
            => r.status = "completed"

\* --------------------------------------------------------------- C11
\* C11: for the latest game of an advanced run, a box score without the
\* PlayerStats table decodes to no player record and no error: the TeamStats
\* rows are all decoded, the unit fails only if the team upsert itself
\* fails, and otherwise every team record is in table team_advanced_stats.
\* Symmetrically a box score without the TeamStats table decodes to no team
\* record, and the player records are upserted unless a store call fails.
C11_MissingTableIsZeroRows ==
    unit.game_id # 0
        => /\ ~unit.has_player
                => /\ unit.player_stats = << >>
                   /\ Len(unit.team_stats) = Len(unit.team_rows)
                   /\ unit.raised => unit.errTeam
                   /\ ~unit.errTeam
                        => \A i \in 1..Len(unit.team_stats) :
                              unit.team_stats[i] \in team_advanced_stats
           /\ ~unit.has_team
                => /\ unit.team_stats = << >>
                   /\ unit.raised => (unit.errConn \/ unit.errPlayer)
                   /\ ~unit.raised
                        => \A i \in 1..Len(unit.player_stats) :
                              \E s \in player_advanced_stats :
                                 PlayerStatKey(s) = PlayerStatKey(unit.player_stats[i])

\* C11 witness: the box score of the latest game had no PlayerStats table
\* and a TeamStats table of two rows; both team records are in the store
C11_Witness ==
    /\ unit.game_id = 1
    /\ ~unit.has_player
    /\ unit.has_team
    /\ Len(unit.team_stats) = 2
    /\ ~unit.raised
    /\ \A i \in 1..2 : unit.team_stats[i] \in team_advanced_stats
    /\ \A s \in player_advanced_stats : s.game_id # 1

\* --------------------------------------------------------------- C15
\* C15: a run is aborted only by a failure of the enumeration of its units;
\* once the games of the date are listed, no failure of one game (decoding,
\* resolving, persisting) ends the run in the failed state.
C15_UnitFailureNeverAborts ==
    pc = "failed" => (gi = 0 /\ ~tradUnit.ran)

\* --------------------------------------------------------------- C16
\* C16: a failure in enumerating the units of a run aborts the run: a
\* date-range run that returns normally had no enumeration failure on any
\* of its dates.
C16_EnumerationFailureIsFatal ==
    range.pc = "done" => ~range.enumFailed

\* --------------------------------------------------------------- C17
\* C17: each game is persisted before the next one begins: once the box
\* score of a later game has been fetched, every team record and every
\* player record collected from an earlier game is in the store.
C17_PersistedBeforeNextFetch ==
    \A k \in 1..Len(script.fetched) :
        k < Len(script.fetched) =>
            /\ \A i \in 1..Len(script.acc.all_team_stats) :
                   script.acc.all_team_stats[i].game_id = script.fetched[k]
                       => script.acc.all_team_stats[i] \in team_game_stats
            /\ \A i \in 1..Len(script.acc.all_player_stats) :
                   script.acc.all_player_stats[i].game_id = script.fetched[k]
                       => script.acc.all_player_stats[i] \in player_game_stats

\* --------------------------------------------------------------- C18
\* C18: every field normalizer is total: whatever value it is called on, it
\* returns and does not raise, and on an absent value (None) it returns its
\* default: 0.0, 72, undefined, "G".
C18_NormalizersTotal ==
    norm.calls > 0 =>
        /\ ~norm.out.raised
        /\ norm.input = PyNone =>
              /\ norm.fn = "parse_minutes_to_decimal" => norm.out.value = 0
              /\ norm.fn = "parse_height_to_inches" => norm.out.value = 72
              /\ norm.fn = "calculate_age_from_birthdate"
                    => norm.out.value = NoneAge
              /\ norm.fn = "normalize_position" => norm.out.text = <<"G">>

\* --------------------------------------------------------------- C19
\* positions of the hyphens of a text
Hyphens(s) == {i \in 1..Len(s) : s[i] = "-"}

\* the value is a string "F-I": one hyphen, an integer on each side
IsFeetInches(v) ==
    /\ v.type = "str"
    /\ Cardinality(Hyphens(v.chars)) = 1
    /\ LET h == CHOOSE i \in Hyphens(v.chars) : TRUE
       IN /\ IsIntLiteral(SubSeq(v.chars, 1, h - 1))
          /\ IsIntLiteral(SubSeq(v.chars, h + 1, Len(v.chars)))

\* C19: parse_height_to_inches returns feet*12 + inches on a string "F-I"
\* with integers F and I, and exactly 72 on every other value.
C19_HeightInches ==
    (norm.fn = "parse_height_to_inches" /\ norm.calls = 1) =>
        IF IsFeetInches(norm.input)
        THEN LET h == CHOOSE i \in Hyphens(norm.input.chars) : TRUE
                 F == IntOf(SubSeq(norm.input.chars, 1, h - 1))
                 I == IntOf(SubSeq(norm.input.chars, h + 1,
                                   Len(norm.input.chars)))
             IN norm.out = [NoOut EXCEPT !.value = F * 12 + I]
        ELSE norm.out = [NoOut EXCEPT !.value = 72]

\* "6-1" was converted to 73 inches
C19_Witness ==
    /\ norm.fn = "parse_height_to_inches"
    /\ norm.calls = 1
    /\ norm.input = PyStr(<<"6", "-", "1">>)
    /\ norm.out.value = 73

\* --------------------------------------------------------------- C20
\* C20: normalize_position is idempotent: normalizing the label it returned
\* returns that label again.
C20_NormalizePositionIdempotent ==
    norm.calls = 2 => norm.again = norm.out

\* --------------------------------------------------------------- C21
\* C21: whatever label normalize_position is called on, the text it returns
\* has at most 10 characters, and on the empty text and on "nan" it returns
\* "G".
C21_PositionAtMostTen ==
    (norm.fn = "normalize_position" /\ norm.calls > 0) =>
        /\ ~norm.out.raised
        /\ Len(norm.out.text) <= 10
        /\ norm.input \in {PyStr(<< >>), PyStr(Nan)} => norm.out.text = <<"G">>
        /\ norm.calls = 2 => Len(norm.again.text) <= 10

\* a label of more than 10 characters without a hyphen was cut to 10
C21_Witness ==
    /\ norm.fn = "normalize_position"
    /\ norm.calls = 1
    /\ norm.input.type = "str"
    /\ Len(norm.input.chars) > 10
    /\ ~Contains(norm.input.chars, "-")
    /\ Len(norm.out.text) = 10

\* --------------------------------------------------------------- C22
\* C22: parse_game_data returns a game whose type follows the first three
\* characters of the id ("001" preseason, "002" regular, "004" playoff, any
\* other prefix or a shorter id regular) and whose status follows the status
\* id (2 in_progress, 3 completed, else scheduled).
C22_GameTypeFromPrefix ==
    (norm.fn = "parse_game_data" /\ norm.calls = 1) =>
        /\ ~norm.out.raised
        /\ norm.out.game_type =
              IF Len(norm.input.chars) < 3 THEN "regular"
              ELSE IF SubSeq(norm.input.chars, 1, 3) = <<"0", "0", "1">>
                   THEN "preseason"
              ELSE IF SubSeq(norm.input.chars, 1, 3) = <<"0", "0", "4">>
                   THEN "playoff"
              ELSE "regular"
        /\ norm.out.status = IF norm.status_id = 2 THEN "in_progress"
                             ELSE IF norm.status_id = 3 THEN "completed"
                             ELSE "scheduled"

\* --------------------------------------------------------------- C23
\* the dates processed so far are 1, 2, ... in this order, each once, and a
\* run that has returned has processed 1..end_date (none when the end lies
\* before the start)
VisitedInOrder ==
    /\ Len(range.visited) = range.current_date - 1
    /\ \A i \in 1..Len(range.visited) : range.visited[i] = i
    /\ range.pc = "done" => Len(range.visited) = range.end_date

\* C23: a date-range run visits every date from start to end exactly once,
\* in ascending order, whatever happens on a date, and it terminates.
C23_EveryDateOnce ==
    []VisitedInOrder /\ <>(range.pc = "done")

\* a run over two dates has returned; an enumeration failed on one date and
\* the game of the other date raised
C23_Witness ==
    /\ range.pc = "done"
    /\ range.visited = <<1, 2>>
    /\ range.enumFailed
    /\ range.last \in {"game_raises", "date_raises"}

\* --------------------------------------------------------------- C24
\* C24: a career run over a list of n player ids processes each id exactly
\* once, in list order, and counts each as a success or as a failure: the
\* ids processed so far are the first i - 1 of the list and successful +
\* failed is their number; at the end the ids processed are the whole list
\* and successful + failed = n. A player whose fetch, parse or write failed
\* leaves the later players to be processed.
C24_EveryPlayerCounted ==
    career.pc \in {"loop", "done"} =>
        /\ career.i - 1 <= Len(career.player_ids)
        /\ career.processed = SubSeq(career.player_ids, 1, career.i - 1)
        /\ career.successful + career.failed = Len(career.processed)
        /\ career.pc = "done" => career.processed = career.player_ids

\* a run over two players has ended: the first player failed, the second one
\* was processed after it, succeeded and has rows in the store
C24_Witness ==
    /\ career.pc = "done"
    /\ Len(career.player_ids) = 2
    /\ career.failed = 1
    /\ career.successful = 1
    /\ career.last.ok
    /\ career.last.player_id = career.player_ids[2]
    /\ \E r \in career.store.season_totals_regular :
           r.player_id = career.last.player_id

\* --------------------------------------------------------------- C27
\* the season tables of the career store
SeasonTables == {"season_totals_regular", "season_totals_playoffs",
                 "season_rankings_regular", "season_rankings_playoffs"}

\* C27 as stated: every batch handed to a season-totals or season-rankings
\* upsert holds at most one record per (player_id, season_id), and the
\* regular season batch holds one record per provider row that is not a
\* "TOT" row.
C27_OneRecordPerSeason ==
    \A h \in 1..Len(career.last.handed) :
        LET table == career.last.handed[h].table
            batch == career.last.handed[h].batch
        IN /\ table \in SeasonTables => ~SameKeyTwice(table, batch)
           /\ table = "season_totals_regular" =>
                  Len(batch) = Len(SelectSeq(career.last.rows,
                                   LAMBDA row : row.TEAM_ABBREVIATION # TOT))

\* --------------------------------------------------------------- C25
\* C25: every record of the batch a parser has built, and every row an
\* upsert of player statistics has written, names a player id that is a row
\* of table players: a player of the known-player set read from the store,
\* or a player whose row the resolver committed earlier in the same run.
C25_RecordsNameCommittedPlayers ==
    /\ \A k \in 1..Len(player_stats) :
           /\ player_stats[k].player_id \in DOMAIN players
           /\ player_stats[k].player_id \in existing_players
    /\ \A r \in player_advanced_stats : r.player_id \in DOMAIN players
    /\ accepted \subseteq DOMAIN players

\* a row of a player the resolver accepted in this run has been written
\* together with the row of a player known from the start
C25_Witness ==
    \E r, q \in player_advanced_stats :
        /\ r.player_id \in accepted
        /\ q.player_id \notin accepted

\* --------------------------------------------------------------- C26
\* C26 as stated: every record accepted into a batch carries a team_id that
\* is a row of table teams, for the rows of known players and for the rows
\* of players the resolver accepted.
C26_RecordTeamIsLocal ==
    \A k \in 1..Len(player_stats) : player_stats[k].team_id \in teams

\* --------------------------------------------------------------- C29
\* C29: a player id the resolver rejected is not added to the known-player
\* set, and every step that reads a played row of an id outside the
\* known-player set (such as an id rejected before, in this game or in an
\* earlier one) runs a resolution of its own, which accepts or rejects.
C29_RejectedIdResolvedAgain ==
    [][/\ lastRow'.outcome = "rejected" =>
              lastRow'.player_id \notin existing_players'
       /\ (/\ ReadsRow
           /\ lastRow'.min \notin {"absent", "0:00"}
           /\ lastRow'.player_id \notin existing_players)
              => lastRow'.outcome \in {"accepted", "rejected"}]_vars

\* the other player was known from the start, so the row rejected earlier in
\* this box score named the player of the latest row, which was resolved
\* again and, this time, accepted
C29_Witness ==
    /\ lastRow.outcome = "accepted"
    /\ rejectedAt # NotRejected
    /\ accepted = {lastRow.player_id}
    /\ PlayerIds \ {lastRow.player_id} \subseteq DOMAIN players

\* --------------------------------------------------------------- C30
\* C30: a step that reads a row without minutes (MIN absent, empty or
\* "0:00") skips it before any resolution: no record is appended, no
\* resolver call and no store call is made, table players and the
\* known-player set stay as they are, also when the player id is unknown.
C30_NoMinutesRowSkipped ==
    [][(ReadsRow /\ lastRow'.min \in {"absent", "0:00"})
          => /\ lastRow'.outcome = "no_minutes"
             /\ player_stats' = player_stats
             /\ players' = players
             /\ existing_players' = existing_players
             /\ faults' = faults]_vars

\* the latest row read is a "0:00" row of a player outside table players
\* and outside the known-player set, after a played row was recorded
C30_Witness ==
    /\ lastRow.outcome = "no_minutes"
    /\ lastRow.min = "0:00"
    /\ lastRow.player_id \notin DOMAIN players
    /\ lastRow.player_id \notin existing_players
    /\ player_stats # << >>

\* --------------------------------------------------------------- C28
\* C28 as stated: when a run of the traditional orchestrator has ended
\* without a store error, every game the scoreboard listed is a row of
\* table games with the status parsed from its status id, and a game
\* without team records (its box score could not be fetched or decoded, or
\* it is not completed) has null scores.
C28_FailedGameStillPersisted ==
    (/\ script.module = "traditionalExtractor"
     /\ script.pc \in {"done", "failed"}
     /\ faults = 0)
        => \A i \in 1..Len(script.games_raw) :
               \E r \in game_rows :
                   /\ r.id = i
                   /\ r.status = GameStatus(script.games_raw[i])
                   /\ (\A t \in team_game_stats : t.game_id # i)
                          => (r.home_score = NoneInt /\ r.away_score = NoneInt)

====
